---- MODULE Spec2Model ----
(***************************************************************************)
(* Model of the deal simulator (App component) of COTIZADOR-MEGAGEN: the   *)
(* live deal, the margin allocation engine, the quotation store and the    *)
(* two export renderings.                                                  *)
(*                                                                         *)
(* Numbers are JavaScript doubles in the program.  They are modelled as    *)
(* exact fractions [n, d] in lowest terms with d > 0; the value with d = 0 *)
(* stands for the results JavaScript gives to a division by zero (NaN and  *)
(* the infinities), which are not defined numbers.                         *)
(* Texts that the program inspects (product names) are sequences of        *)
(* characters, so that toLowerCase and includes are computed.              *)
(***************************************************************************)
EXTENDS Integers, Sequences, FiniteSets, TLC

(***************************************************************************)
(* Bounds of the model.                                                    *)
(***************************************************************************)
MaxDeal == 2
MaxQty == 2
MaxSaved == 1
MaxPending == 1
MaxRows == 2
MaxImports == 1
MaxTaxPrice == 300

MaxCalls == 2
MaxNow == 3
MaxProductId == 4

MaxCostLen == 3

(***************************************************************************)
(* Arithmetic on fractions.                                                *)
(***************************************************************************)
Abs(i) == IF i < 0 THEN -i ELSE i

RECURSIVE GCD(_, _)
GCD(a, b) == IF b = 0 THEN a ELSE GCD(b, a % b)

NaN == [n |-> 0, d |-> 0]

IsNum(x) == x.d > 0

Frac(n, d) ==
    IF d = 0 THEN NaN
    ELSE LET s == IF d < 0 THEN -1 ELSE 1
             g == GCD(Abs(n), Abs(d))
         IN  [n |-> (s * n) \div g, d |-> (s * d) \div g]

Num(i) == [n |-> i, d |-> 1]

Zero == Num(0)

Plus(a, b) == IF IsNum(a) /\ IsNum(b) THEN Frac(a.n * b.d + b.n * a.d, a.d * b.d) ELSE NaN

Minus(a, b) == IF IsNum(a) /\ IsNum(b) THEN Frac(a.n * b.d - b.n * a.d, a.d * b.d) ELSE NaN

Times(a, b) == IF IsNum(a) /\ IsNum(b) THEN Frac(a.n * b.n, a.d * b.d) ELSE NaN

\* JavaScript's x / y: a division by zero gives NaN or an infinity
Over(a, b) == IF IsNum(a) /\ IsNum(b) /\ b.n # 0 THEN Frac(a.n * b.d, a.d * b.n) ELSE NaN

Less(a, b) == IsNum(a) /\ IsNum(b) /\ a.n * b.d < b.n * a.d

LessEq(a, b) == IsNum(a) /\ IsNum(b) /\ a.n * b.d <= b.n * a.d

\* Math.max(a, b)
MathMax(a, b) == IF IsNum(a) /\ IsNum(b) THEN (IF Less(a, b) THEN b ELSE a) ELSE NaN

\* Math.round(a): the nearest integer, halves rounded towards +infinity
MathRound(a) == IF IsNum(a) THEN Num((2 * a.n + a.d) \div (2 * a.d)) ELSE NaN

(***************************************************************************)
(* Texts: String.prototype.toLowerCase and String.prototype.includes.      *)
(***************************************************************************)
UpperCase == <<"A", "B", "C", "D", "E", "F", "G", "H", "I", "J", "K", "L", "M",
               "N", "O", "P", "Q", "R", "S", "T", "U", "V", "W", "X", "Y", "Z",
               "Á", "É", "Í", "Ó", "Ú", "Ñ">>

LowerCase == <<"a", "b", "c", "d", "e", "f", "g", "h", "i", "j", "k", "l", "m",
               "n", "o", "p", "q", "r", "s", "t", "u", "v", "w", "x", "y", "z",
               "á", "é", "í", "ó", "ú", "ñ">>

toLowerCaseChar(c) ==
    IF \E i \in 1..Len(UpperCase) : UpperCase[i] = c
    THEN LowerCase[CHOOSE i \in 1..Len(UpperCase) : UpperCase[i] = c]
    ELSE c

toLowerCase(s) == [i \in 1..Len(s) |-> toLowerCaseChar(s[i])]

includes(s, sub) ==
    \E i \in 0..(Len(s) - Len(sub)) : SubSeq(s, i + 1, i + Len(sub)) = sub

ItemEspecialText == <<"i", "t", "e", "m", " ", "e", "s", "p", "e", "c", "i", "a", "l">>

ManualText == <<"m", "a", "n", "u", "a", "l">>

\* String.prototype.trim
RECURSIVE trimStart(_)
trimStart(s) == IF s # <<>> /\ Head(s) = " " THEN trimStart(Tail(s)) ELSE s

RECURSIVE trimEnd(_)
trimEnd(s) ==
    IF s # <<>> /\ s[Len(s)] = " " THEN trimEnd(SubSeq(s, 1, Len(s) - 1)) ELSE s

trim(s) == trimEnd(trimStart(s))

\* normalize("NFD") followed by the removal of the combining marks
Accented == <<"á", "é", "í", "ó", "ú", "ñ", "Á", "É", "Í", "Ó", "Ú", "Ñ">>

Unaccented == <<"a", "e", "i", "o", "u", "n", "A", "E", "I", "O", "U", "N">>

stripDiacritic(c) ==
    IF \E i \in 1..Len(Accented) : Accented[i] = c
    THEN Unaccented[CHOOSE i \in 1..Len(Accented) : Accented[i] = c]
    ELSE c

\* normalize of the file parser: lower case, no diacritics, trimmed
normalize(text) == trim([i \in 1..Len(text) |-> stripDiacritic(toLowerCaseChar(text[i]))])

\* normalizerKey of the file parser: lower case, trimmed
normalizerKey(text) == trim(toLowerCase(text))

(***************************************************************************)
(* parseFloat and parseInt on texts without an exponent: leading blanks,   *)
(* a sign, digits and (parseFloat) a period followed by digits; the        *)
(* longest such prefix is the value, and NaN when it holds no digit.       *)
(***************************************************************************)
DigitChars == <<"0", "1", "2", "3", "4", "5", "6", "7", "8", "9">>

isDigit(c) == \E i \in 1..10 : DigitChars[i] = c

digitValue(c) == (CHOOSE i \in 1..10 : DigitChars[i] = c) - 1

\* the number of digits of s from position i on
RECURSIVE digitsLen(_, _)
digitsLen(s, i) == IF i <= Len(s) /\ isDigit(s[i]) THEN 1 + digitsLen(s, i + 1) ELSE 0

\* the value of the n digits of s from position i on, after the digits of acc
RECURSIVE digitsValue(_, _, _, _)
digitsValue(s, i, n, acc) ==
    IF n = 0 THEN acc ELSE digitsValue(s, i + 1, n - 1, 10 * acc + digitValue(s[i]))

RECURSIVE Pow10(_)
Pow10(n) == IF n = 0 THEN 1 ELSE 10 * Pow10(n - 1)

parseFloat(text) ==
    LET s        == trimStart(text)
        signed   == s # <<>> /\ Head(s) \in {"-", "+"}
        first    == IF signed THEN 2 ELSE 1
        whole    == digitsLen(s, first)
        dot      == first + whole
        decimals == IF dot <= Len(s) /\ s[dot] = "." THEN digitsLen(s, dot + 1) ELSE 0
        digits   == digitsValue(s, dot + 1, decimals, digitsValue(s, first, whole, 0))
    IN  IF whole + decimals = 0 THEN NaN
        ELSE Frac(IF signed /\ Head(s) = "-" THEN -digits ELSE digits, Pow10(decimals))

parseInt(text) ==
    LET s      == trimStart(text)
        signed == s # <<>> /\ Head(s) \in {"-", "+"}
        first  == IF signed THEN 2 ELSE 1
        whole  == digitsLen(s, first)
        digits == digitsValue(s, first, whole, 0)
    IN  IF whole = 0 THEN NaN
        ELSE Num(IF signed /\ Head(s) = "-" THEN -digits ELSE digits)

\* x || 0 for a number x: NaN and 0 are falsy
orZero(x) == IF IsNum(x) THEN x ELSE Zero


(***************************************************************************)
(* The file parser.  A cell value is a text; null and undefined are the    *)
(* one-element sequences below, whose element is no character.  A row is   *)
(* an object: the sequence of its <<key, value>> pairs in insertion order. *)
(***************************************************************************)
Null == <<"null">>

Undefined == <<"undefined">>

\* the truthiness of a cell value
truthy(val) == val # Null /\ val # Undefined /\ val # <<>>

\* Object.keys(row) and Object.values(row)
ObjectKeys(row) == [i \in 1..Len(row) |-> row[i][1]]

ObjectValues(row) == [i \in 1..Len(row) |-> row[i][2]]

\* rv[k]
elementAt(rv, k) == IF k + 1 <= Len(rv) THEN rv[k + 1] ELSE Undefined

\* a variant in which the last matching label wins
findValueLastMatch(row, keywords) ==
    LET matches(key) ==
            \E k \in 1..Len(keywords) :
                \/ normalize(key) = normalize(keywords[k])
                \/ includes(normalize(key), normalize(keywords[k]))
        found == {i \in 1..Len(row) : matches(row[i][1])}
    IN  IF found = {} THEN Null
        ELSE LET match == CHOOSE i \in found : \A j \in found : j <= i
             IN  IF row[match][1] = <<>> THEN Null ELSE row[match][2]

findValue(row, keywords) ==
    LET matches(key) ==
            \E k \in 1..Len(keywords) :
                \/ normalize(key) = normalize(keywords[k])
                \/ includes(normalize(key), normalize(keywords[k]))
        found == {i \in 1..Len(row) : matches(row[i][1])}
    IN  IF found = {} THEN Null
        ELSE LET match == CHOOSE i \in found : \A j \in found : i <= j
             IN  IF row[match][1] = <<>> THEN Null ELSE row[match][2]

SkuKeywords ==
    <<<<"s", "k", "u">>,
      <<"c", "o", "d", "i", "g", "o">>,
      <<"c", "o", "d">>>>

NameKeywords ==
    <<<<"n", "o", "m", "b", "r", "e">>,
      <<"n", "a", "m", "e">>,
      <<"a", "r", "t", "i", "c", "u", "l", "o">>,
      <<"i", "t", "e", "m">>>>

CostKeywords ==
    <<<<"p", "r", "e", "c", "i", "o">>,
      <<"p", "r", "i", "c", "e">>,
      <<"c", "o", "s", "t", "o">>,
      <<"c", "o", "s", "t">>,
      <<"u", "s", "d">>>>

CategoryKeywords ==
    <<<<"c", "a", "t", "e", "g", "o", "r", "i", "a">>,
      <<"c", "a", "t", "e", "g", "o", "r", "y">>,
      <<"f", "a", "m", "i", "l", "i", "a">>,
      <<"t", "i", "p", "o">>>>

GeneralText == <<"G", "e", "n", "e", "r", "a", "l">>

\* the characters parseNumber keeps
isNumberChar(c) == isDigit(c) \/ c \in {".", ","}

\* String.prototype.replace with a string pattern: the first occurrence
RECURSIVE replaceFirst(_, _, _)
replaceFirst(s, from, to) ==
    IF s = <<>> THEN <<>>
    ELSE IF Head(s) = from THEN <<to>> \o Tail(s)
    ELSE <<Head(s)>> \o replaceFirst(Tail(s), from, to)

parseNumber(val) ==
    IF val = Null \/ val = Undefined THEN Zero
    ELSE LET clean == replaceFirst(SelectSeq(val, isNumberChar), ",", ".")
             num   == parseFloat(clean)
         IN  IF IsNum(num) THEN num ELSE Zero

\* value?.toString().trim() || fallback
trimmedOr(val, fallback) ==
    IF val = Null \/ val = Undefined THEN fallback
    ELSE IF trim(val) = <<>> THEN fallback ELSE trim(val)

\* uniqueProducts.has(key), uniqueProducts being the sequence of its entries
mapHas(uniqueProducts, key) ==
    \E i \in 1..Len(uniqueProducts) : uniqueProducts[i].key = key

\* the body of rows.forEach in mapRowsToProducts: the map after a row
rowMapped(uniqueProducts, row, index) ==
    LET sku         == findValue(row, SkuKeywords)
        name        == findValue(row, NameKeywords)
        cost        == findValue(row, CostKeywords)
        category    == findValue(row, CategoryKeywords)
        rv          == ObjectValues(row)
        finalSku    == IF truthy(sku) THEN sku
                       ELSE IF index = 0 THEN Null ELSE elementAt(rv, 0)
        finalName   == IF truthy(name) THEN name ELSE elementAt(rv, 1)
        finalCost   == IF truthy(cost) THEN cost ELSE elementAt(rv, 3)
        productName == trimmedOr(finalName, <<>>)
    IN  IF productName = <<>> /\ ~truthy(sku) THEN uniqueProducts
        ELSE IF productName # <<>> /\ ~mapHas(uniqueProducts, normalizerKey(productName))
        THEN Append(uniqueProducts,
                    [key   |-> normalizerKey(productName),
                     value |-> [sku      |-> trimmedOr(finalSku, <<>>),
                                name     |-> productName,
                                category |-> trimmedOr(category, GeneralText),
                                costUSD  |-> parseNumber(finalCost),
                                msrpUSD  |-> Zero]])
        ELSE uniqueProducts

RECURSIVE rowsMapped(_, _, _)
rowsMapped(uniqueProducts, rows, index) ==
    IF index = Len(rows) THEN uniqueProducts
    ELSE rowsMapped(rowMapped(uniqueProducts, rows[index + 1], index), rows, index + 1)

mapRowsToProducts(rows) ==
    LET uniqueProducts == rowsMapped(<<>>, rows, 0)
    IN  [i \in 1..Len(uniqueProducts) |-> uniqueProducts[i].value]


(***************************************************************************)
(* parseFile.  A file has a name and, as its content, the grid of cells    *)
(* its bytes decode to (a sequence of lines, each a sequence of texts);    *)
(* malformed tells that the bytes are no well-formed csv or workbook, the   *)
(* grid then being what the decoder gets out of them.                      *)
(***************************************************************************)
\* file.name.split('.').pop()?.toLowerCase()
extension(name) ==
    LET dots == {i \in 1..Len(name) : name[i] = "."}
    IN  toLowerCase(IF dots = {} THEN name
                    ELSE SubSeq(name, (CHOOSE i \in dots : \A j \in dots : j <= i) + 1,
                                Len(name)))

CsvText == <<"c", "s", "v">>

XlsxText == <<"x", "l", "s", "x">>

XlsText == <<"x", "l", "s">>

\* Array.prototype.join(' ')
RECURSIVE join(_)
join(cells) ==
    IF cells = <<>> THEN <<>>
    ELSE IF Len(cells) = 1 THEN cells[1]
    ELSE cells[1] \o <<" ">> \o join(Tail(cells))

\* the key sheet_to_json gives to a column without a header
EmptyKey == <<"_", "_", "E", "M", "P", "T", "Y">>

\* the object of a line under a header line; XLSX leaves the empty cells out
objectOf(header, cells, keepEmpty) ==
    LET width == IF Len(header) < Len(cells) THEN Len(header) ELSE Len(cells)
        pairs == [j \in 1..width |->
                     <<IF header[j] = <<>> /\ ~keepEmpty THEN EmptyKey ELSE header[j],
                       cells[j]>>]
    IN  SelectSeq(pairs, LAMBDA pair : keepEmpty \/ pair[2] # <<>>)

\* a line without content
isBlank(cells) == \A j \in 1..Len(cells) : cells[j] = <<>>

\* Papa.parse(text, {header: true, skipEmptyLines: true}): results.data
papaData(grid) ==
    IF grid = <<>> THEN <<>>
    ELSE LET lines == SelectSeq(Tail(grid), LAMBDA cells : Len(cells) > 1 \/ ~isBlank(cells))
         IN  [i \in 1..Len(lines) |-> objectOf(Head(grid), lines[i], TRUE)]

\* a variant that looks at every line of the sheet
headerRowIndexAllRows(rows) ==
    LET limit == Len(rows)
        isHeader(i) ==
            LET rowText == toLowerCase(join(rows[i + 1]))
            IN  \/ includes(rowText, <<"s", "k", "u">>)
                \/ includes(rowText, <<"n", "o", "m">>)
                \/ includes(rowText, <<"p", "r", "e">>)
        found == {i \in 0..(limit - 1) : isHeader(i)}
    IN  IF found = {} THEN 0 ELSE CHOOSE i \in found : \A j \in found : i <= j

\* the header line parseFile looks for among the first 10 lines of a sheet
headerRowIndex(rows) ==
    LET limit == IF Len(rows) < 10 THEN Len(rows) ELSE 10
        isHeader(i) ==
            LET rowText == toLowerCase(join(rows[i + 1]))
            IN  \/ includes(rowText, <<"s", "k", "u">>)
                \/ includes(rowText, <<"n", "o", "m">>)
                \/ includes(rowText, <<"p", "r", "e">>)
        found == {i \in 0..(limit - 1) : isHeader(i)}
    IN  IF found = {} THEN 0 ELSE CHOOSE i \in found : \A j \in found : i <= j

\* XLSX.utils.sheet_to_json(worksheet, {range: headerRowIndex})
sheetToJson(rows, range) ==
    LET lines == SelectSeq(SubSeq(rows, range + 2, Len(rows)), LAMBDA cells : ~isBlank(cells))
    IN  [i \in 1..Len(lines) |-> objectOf(rows[range + 1], lines[i], FALSE)]

\* the value parseFile resolves its promise with
parseFileValue(file) ==
    IF extension(file.name) = CsvText THEN mapRowsToProducts(papaData(file.grid))
    ELSE IF file.grid = <<>> THEN <<>>
    ELSE mapRowsToProducts(sheetToJson(file.grid, headerRowIndex(file.grid)))

\* a text as a string
RECURSIVE toStr(_)
toStr(text) == IF text = <<>> THEN "" ELSE Head(text) \o toStr(Tail(text))

\* handleFileUpload: the catalog made of the parsed products; Date.now() is
\* not modelled, the ids `upl-${Date.now()}-${index}` differ by their index
newProducts(rawProducts) ==
    [i \in 1..Len(rawProducts) |->
        [id                |-> IF rawProducts[i].sku # <<>> THEN toStr(rawProducts[i].sku)
                               ELSE "upl-now-" \o ToString(i - 1),
         sku               |-> toStr(rawProducts[i].sku),
         name              |-> rawProducts[i].name,
         category          |-> toStr(rawProducts[i].category),
         costUSD           |-> rawProducts[i].costUSD,
         suggestedPriceUSD |-> rawProducts[i].msrpUSD]]


(***************************************************************************)
(* Program constants.                                                      *)
(***************************************************************************)
\* useState<number>(950): the exchange rate before any fetch
InitialExchangeRate == 950

\* fetchExchangeRate(retries = 2)
DefaultRetries == 2

\* the reserved category of manually created one-off products
\* ('Productos Únicos' in the source)
ProductosUnicos == "Productos Unicos"

\* the category duplicateQuotation gives to every restored line
Restaurado == "Restaurado"

SaveRejectedMsg == "Ingresa una simulacion valida antes de guardar."

SaveOkMsg == "Simulacion guardada en el historial de Supabase."

SaveErrorMsg == "Error al guardar simulacion"

LoadedMsg == "Cotizacion cargada. Puedes modificarla y guardarla nuevamente."

FetchQuotationsErrorMsg == "Error al cargar cotizaciones"

DeletedMsg == "Cotizacion eliminada con exito."

UnsupportedFormatMsg == "Error al procesar el archivo: Formato no soportado."

DecodeErrorMsg == "Error al procesar el archivo: (error de Papa.parse)"

DeleteErrorMsg == "Error al eliminar cotizacion"

InternalExportMsg == "Imagen de cotizacion generada."

ClientExportMsg == "Cotizacion para cliente generada (Precios Netos + IVA)."

(***************************************************************************)
(* The catalog the store returns on mount: a regular product, a one-off    *)
(* product created through createUniqueProduct, and a regular product      *)
(* whose name contains "manual".                                           *)
(***************************************************************************)
Implante ==
    [id |-> "ar-001", sku |-> "", name |-> <<"I", "m", "p", "l", "a", "n", "t", "e">>,
     category |-> "Implantes", costUSD |-> Frac(5, 4), suggestedPriceUSD |-> Num(3)]

PasajeAereo ==
    [id |-> "unique-1", sku |-> "UNIQUE-1", name |-> <<"P", "a", "s", "a", "j", "e", " ", "A", "e", "r", "e", "o">>,
     category |-> ProductosUnicos, costUSD |-> Num(2), suggestedPriceUSD |-> Num(2)]

LlaveManual ==
    [id |-> "lm-001", sku |-> "", name |-> <<"L", "l", "a", "v", "e", " ", "M", "a", "n", "u", "a", "l">>,
     category |-> "Aditamentos", costUSD |-> Num(1), suggestedPriceUSD |-> Num(2)]

\* in the order of their names, as fetchProducts asks for them
StoreCatalog == <<Implante, LlaveManual, PasajeAereo>>

(***************************************************************************)
(* Inputs.                                                                 *)
(***************************************************************************)
\* values typed into the exchange-rate input
RateInputs == {Num(0), Num(-1)}

\* values the rate service returns
FetchedRates == {Num(940)}

\* values typed into the sale-price input
PriceInputs == {Num(0), Num(3), Num(-3), Num(3800)}

\* values typed into a quantity input
QtyInputs == {-1, MaxQty}

\* texts of a quantity input: emptied, "-1", "2" and "1.5"
QtyTexts == {<<>>, <<"-", "1">>, <<"2">>, <<"1", ".", "5">>}

\* texts of the tax-inclusive price input: emptied, "0" and "119"
IvaTexts == {<<>>, <<"0">>, <<"1", "1", "9">>}

\* figures typed into the tax-inclusive price input: "1000" and "357"
TaxTexts == {<<"1", "0", "0", "0">>, <<"3", "5", "7">>}

\* texts of the desired-margin input: emptied, "0", "20", "100" and "-5"
MarginTexts == {<<>>, <<"0">>, <<"2", "0">>, <<"1", "0", "0">>, <<"-", "5">>}

(***************************************************************************)
(* The files chosen for import.                                            *)
(***************************************************************************)
HeaderLine == <<<<"S", "K", "U">>, <<"N", "o", "m", "b", "r", "e">>, <<"P", "r", "e", "c", "i", "o">>, <<"C", "a", "t", "e", "g", "o", "r", "i", "a">>>>

\* the lines of data: a product, the same name in another case and padded, a
\* name with an accent, the same name without it, an sku without a name, and
\* a line of empty cells
DataLines ==
    {<<<<"A", "1">>, <<"W", "i", "d", "g", "e", "t">>, <<"1", "0">>, <<"K", "i", "t", "s">>>>,
     <<<<"A", "2">>, <<"W", "I", "D", "G", "E", "T", " ">>, <<"2", "0">>, <<"O", "t", "r", "o", "s">>>>,
     <<<<"B", "1">>, <<"C", "a", "f", "é">>, <<"3", ",", "5">>, <<>>>>,
     <<<<"B", "2">>, <<"C", "a", "f", "e">>, <<"4">>, <<>>>>,
     <<<<"S", "9">>, <<>>, <<"7">>, <<>>>>,
     <<<<>>, <<>>, <<>>, <<>>>>}

\* a header line followed by up to MaxRows lines of data, the empty sheet, and
\* a sheet whose header line follows a title line
ImportGrids ==
    {<<HeaderLine>> \o lines :
        lines \in UNION {[1..n -> DataLines] : n \in 0..MaxRows}}
    \cup {<<>>, <<<<<<"L", "i", "s", "t", "a", " ", "2", "0", "2", "4">>>>, HeaderLine, <<<<"A", "1">>, <<"W", "i", "d", "g", "e", "t">>, <<"1", "0">>, <<"K", "i", "t", "s">>>>>>}

WellFormedFiles ==
    [name : {<<"a", ".", "c", "s", "v">>, <<"a", ".", "X", "L", "S", "X">>}, grid : ImportGrids, malformed : {FALSE}]
    \cup [name : {<<"a", ".", "x", "l", "s">>}, grid : {<<HeaderLine, <<<<"A", "1">>, <<"W", "i", "d", "g", "e", "t">>, <<"1", "0">>, <<"K", "i", "t", "s">>>>>>}, malformed : {FALSE}]

MalformedFiles ==
    [name : {<<"a", ".", "c", "s", "v">>, <<"a", ".", "X", "L", "S", "X">>}, grid : {<<>>, <<HeaderLine, <<<<"A", "1">>, <<"W", "i", "d", "g", "e", "t">>, <<"1", "0">>, <<"K", "i", "t", "s">>>>>>}, malformed : {TRUE}]

UnsupportedFiles ==
    [name : {<<"a", ".", "p", "d", "f">>, <<"d", "a", "t", "o", "s">>}, grid : {<<HeaderLine, <<<<"A", "1">>, <<"W", "i", "d", "g", "e", "t">>, <<"1", "0">>, <<"K", "i", "t", "s">>>>>>}, malformed : {FALSE}]

ImportFiles == WellFormedFiles \cup MalformedFiles \cup UnsupportedFiles

\* header lines whose labels vary in case, accents and blanks, hold a synonym
\* inside a longer label, repeat a field, hold no synonym, or are in another
\* order
LabelHeaders ==
    {<<<<"S", "K", "U">>, <<"N", "o", "m", "b", "r", "e">>, <<"P", "r", "e", "c", "i", "o">>, <<"C", "a", "t", "e", "g", "o", "r", "i", "a">>>>,
     <<<<" ", "C", "Ó", "D", "I", "G", "O", " ">>, <<"n", "o", "m", "b", "r", "e">>, <<"C", "O", "S", "T", "O">>, <<"T", "i", "p", "o">>>>,
     <<<<"C", "o", "d", ".", " ", "i", "n", "t", "e", "r", "n", "o">>, <<"N", "o", "m", "b", "r", "e", " ", "p", "r", "o", "d", "u", "c", "t", "o">>, <<"P", "r", "e", "c", "i", "o", " ", "l", "i", "s", "t", "a">>, <<"F", "a", "m", "i", "l", "i", "a">>>>,
     <<<<"I", "t", "e", "m">>, <<"N", "o", "m", "b", "r", "e">>, <<"P", "r", "i", "c", "e">>, <<"P", "r", "e", "c", "i", "o">>>>,
     <<<<"A">>, <<"B">>, <<"C">>, <<"D">>>>,
     <<<<"N", "o", "m", "b", "r", "e">>, <<"S", "K", "U">>, <<"P", "r", "e", "c", "i", "o">>, <<"S", "t", "o", "c", "k">>>>}

\* lines of data: two with every cell filled, one with two empty cells
LabelLines ==
    {<<<<"P", "1">>, <<"Q", "1">>, <<"1", "1">>, <<"1", "2">>>>,
     <<<<"P", "2">>, <<"Q", "2">>, <<"2", "1">>, <<"2", "2">>>>,
     <<<<"P", "3">>, <<>>, <<>>, <<"3", "2">>>>}

\* a csv file of a header line and one or two different lines of data
LabelFiles ==
    {[name |-> <<"a", ".", "c", "s", "v">>, malformed |-> FALSE, grid |-> <<header>> \o lines] :
        header \in LabelHeaders,
        lines \in {l \in [1..1 -> LabelLines] \cup [1..2 -> LabelLines] : l[1] # l[Len(l)] \/ Len(l) = 1}}

\* a title line of a sheet, and the sheet of n title lines before the header
\* line
TitleLine == <<<<"M", "e", "g", "a", "g", "e", "n">>>>

titledGrid(n) ==
    [i \in 1..n |-> TitleLine]
        \o <<HeaderLine, <<<<"A", "1">>, <<"W", "i", "d", "g", "e", "t">>, <<"1", "0">>, <<"K", "i", "t", "s">>>>>>

\* sheets: empty, the header line first, after 2, 9 and 10 title lines, after
\* a title that holds a marker, and none
SheetGrids ==
    {<<>>, titledGrid(0), titledGrid(2), titledGrid(9), titledGrid(10),
     <<<<<<"L", "i", "s", "t", "a", " ", "d", "e", " ", "p", "r", "e", "c", "i", "o", "s">>>>>> \o titledGrid(0),
     <<TitleLine, <<<<"A", "1">>, <<"W", "i", "d", "g", "e", "t">>, <<"1", "0">>, <<"K", "i", "t", "s">>>>>>}

SheetFiles ==
    [name : {<<"a", ".", "x", "l", "s", "x">>, <<"a", ".", "x", "l", "s">>}, grid : SheetGrids,
     malformed : {FALSE}]

\* the texts of a cost cell: every text of up to MaxCostLen of the characters
\* below, and some longer ones
CostChars == {"1", "5", ".", ",", "$"}

CostExample == <<"$", "1", ".", "2", "3", "4", ",", "5", "6">>

CostTexts ==
    UNION {[1..n -> CostChars] : n \in 0..MaxCostLen}
    \cup {CostExample, <<"1", ",", "2", "3", "4", ".", "5", "6">>, <<"n", "/", "a">>, <<"-", "1", "2">>}

\* a csv file of one product whose cost cell holds the text, and one without
\* a cost column
CoercionFiles ==
    {[name |-> <<"a", ".", "c", "s", "v">>, malformed |-> FALSE,
      grid |-> <<HeaderLine, <<<<"A", "1">>, <<"W", "i", "d", "g", "e", "t">>, text, <<>>>>>>] : text \in CostTexts}
    \cup {[name |-> <<"a", ".", "c", "s", "v">>, malformed |-> FALSE,
           grid |-> <<<<<<"S", "K", "U">>, <<"N", "o", "m", "b", "r", "e">>>>, <<<<"A", "1">>, <<"W", "i", "d", "g", "e", "t">>>>>>]}

VARIABLES
    products,          \* the catalog
    productsFetch,     \* a fetchProducts call is in flight
    dealItems,         \* the deal's line items
    targetSalePrice,
    exchangeRate,
    ratePending,       \* the fetchExchangeRate calls in flight: retries left of each
    activeTab,
    simulations,       \* the quotation store (table 'simulations'), in insertion order
    nextSimulationId,  \* the id the store gives to the next record
    savedQuotations,   \* the list of stored quotations the history tab shows
    quotationsFetch,   \* a fetchSavedQuotations call is in flight
    alertMsg,          \* the text of the open alert dialog, "" when none
    exported,          \* the document an export is rendering
    parsing,           \* the last parseFile call: its file, its phase and its promise
    fetchError,        \* the last fetchExchangeRate call gave up
    productsStore,     \* the catalog store (table 'products')
    nextProductId,     \* the number of the id the store gives to the next product
    catalogCalls,      \* the store calls of the catalog handlers in flight
    now                \* Date.now(), counted in the calls that read it

vars == <<products, productsFetch, dealItems, targetSalePrice, exchangeRate, ratePending,
          activeTab, simulations, nextSimulationId, savedQuotations, quotationsFetch,
          alertMsg, exported, parsing, fetchError, productsStore, nextProductId,
          catalogCalls, now>>

\* the catalog store and the calls on it
catalogVars == <<productsStore, nextProductId, catalogCalls, now>>


(***************************************************************************)
(* The margin allocation engine: the memos of the App component, as        *)
(* functions of the deal's items, the exchange rate and the sale price.    *)
(***************************************************************************)
RECURSIVE totalCostUSDFrom(_, _)
totalCostUSDFrom(items, acc) ==
    IF items = <<>> THEN acc
    ELSE totalCostUSDFrom(Tail(items),
             Plus(acc, Times(Head(items).product.costUSD, Num(Head(items).quantity))))

totalCostUSD(items) == totalCostUSDFrom(items, Zero)

totalCostCLP(items, rate) == Times(totalCostUSD(items), rate)

isAtCost(item) == item.product.category = ProductosUnicos

lineCostCLP(item, rate) ==
    Times(Times(item.product.costUSD, Num(item.quantity)), rate)

RECURSIVE totalAtCostCLPFrom(_, _, _)
totalAtCostCLPFrom(items, rate, acc) ==
    IF items = <<>> THEN acc
    ELSE totalAtCostCLPFrom(Tail(items), rate,
             IF isAtCost(Head(items)) THEN Plus(acc, lineCostCLP(Head(items), rate)) ELSE acc)

totalAtCostCLP(items, rate) == totalAtCostCLPFrom(items, rate, Zero)

RECURSIVE totalFlexibleCostCLPFrom(_, _, _)
totalFlexibleCostCLPFrom(items, rate, acc) ==
    IF items = <<>> THEN acc
    ELSE totalFlexibleCostCLPFrom(Tail(items), rate,
             IF ~isAtCost(Head(items)) THEN Plus(acc, lineCostCLP(Head(items), rate)) ELSE acc)

totalFlexibleCostCLP(items, rate) == totalFlexibleCostCLPFrom(items, rate, Zero)

\* a variant that spreads the target over the whole cost of the deal
flexibleMultiplierOverWholeCost(items, rate, price) ==
    IF totalCostCLP(items, rate) = Zero THEN Num(1)
    ELSE MathMax(Zero, Over(Minus(price, totalAtCostCLP(items, rate)),
                            totalCostCLP(items, rate)))

\* a variant without the guard against a flexible cost of 0
flexibleMultiplierUnguarded(items, rate, price) ==
    MathMax(Zero, Over(Minus(price, totalAtCostCLP(items, rate)),
                       totalFlexibleCostCLP(items, rate)))

flexibleMultiplier(items, rate, price) ==
    IF totalFlexibleCostCLP(items, rate) = Zero THEN Num(1)
    ELSE MathMax(Zero, Over(Minus(price, totalAtCostCLP(items, rate)),
                            totalFlexibleCostCLP(items, rate)))

suggested50PercentPrice(items, rate) == Over(totalCostCLP(items, rate), Frac(1, 2))

grossMarginValue(items, rate, price) == Minus(price, totalCostCLP(items, rate))

\* a variant that relates the margin to the whole sale price
grossMarginPercentOfSalePrice(items, rate, price) ==
    IF LessEq(price, Zero) THEN Zero
    ELSE Times(Over(grossMarginValue(items, rate, price), price), Num(100))

grossMarginPercent(items, rate, price) ==
    LET flexibleSalePriceCLP == Minus(price, totalAtCostCLP(items, rate))
    IN  IF LessEq(flexibleSalePriceCLP, Zero) THEN Zero
        ELSE Times(Over(grossMarginValue(items, rate, price), flexibleSalePriceCLP), Num(100))

\* the pricing of one row of the deal table
unitPriceRef(item, items, rate, price) ==
    LET multiplier == IF isAtCost(item) THEN Num(1) ELSE flexibleMultiplier(items, rate, price)
        unitCostCLP == Times(item.product.costUSD, rate)
    IN  Times(unitCostCLP, multiplier)

totalPriceRef(item, items, rate, price) ==
    Times(unitPriceRef(item, items, rate, price), Num(item.quantity))

(***************************************************************************)
(* The auto-seed effect.  It runs after a render in which dealItems.length *)
(* or suggested50PercentPrice differs from the previous render, and seeds  *)
(* the price when the deal has items and the price is exactly 0.  The      *)
(* result is the sale price after the effect.                              *)
(***************************************************************************)
\* a variant that seeds again whatever the current price is
autoSeedAnyPrice(oldItems, oldRate, items, rate, price) ==
    IF /\ \/ Len(items) # Len(oldItems)
          \/ suggested50PercentPrice(items, rate) # suggested50PercentPrice(oldItems, oldRate)
       /\ Len(items) > 0
    THEN MathRound(suggested50PercentPrice(items, rate))
    ELSE price

\* a variant whose only dependency is the number of line items
autoSeedOnLengthChange(oldItems, oldRate, items, rate, price) ==
    IF /\ Len(items) # Len(oldItems)
       /\ Len(items) > 0
       /\ price = Zero
    THEN MathRound(suggested50PercentPrice(items, rate))
    ELSE price

autoSeed(oldItems, oldRate, items, rate, price) ==
    IF /\ \/ Len(items) # Len(oldItems)
          \/ suggested50PercentPrice(items, rate) # suggested50PercentPrice(oldItems, oldRate)
       /\ Len(items) > 0
       /\ price = Zero
    THEN MathRound(suggested50PercentPrice(items, rate))
    ELSE price


(***************************************************************************)
(* The quotation codec.                                                    *)
(***************************************************************************)
\* the record saveSimulation hands to the store's insert
simulationRecord(items, rate, price) ==
    [sale_price_clp |-> price,
     exchange_rate  |-> rate,
     total_cost_usd |-> totalCostUSD(items),
     total_cost_clp |-> totalCostCLP(items, rate),
     margin_percent |-> grossMarginPercent(items, rate, price),
     net_profit_clp |-> grossMarginValue(items, rate, price),
     items          |-> [i \in 1..Len(items) |->
                            [name     |-> items[i].product.name,
                             qty      |-> items[i].quantity,
                             cost_usd |-> items[i].product.costUSD]]]

\* the store adds the record's id (and created_at, which orders like the id)
storedRecord(id, record) == [id |-> id] @@ record

\* `restored-${index}`
restoredId(index) == "restored-" \o ToString(index)

\* a variant that restores every line with quantity 1
recreatedItemsSingleQuantity(quotation) ==
    [i \in 1..Len(quotation.items) |->
        [product  |-> [id                |-> restoredId(i - 1),
                       name              |-> quotation.items[i].name,
                       sku               |-> "",
                       category          |-> Restaurado,
                       costUSD           |-> quotation.items[i].cost_usd,
                       suggestedPriceUSD |-> Zero],
         quantity |-> 1]]

\* the line items duplicateQuotation builds from a stored quotation
recreatedItems(quotation) ==
    [i \in 1..Len(quotation.items) |->
        [product  |-> [id                |-> restoredId(i - 1),
                       name              |-> quotation.items[i].name,
                       sku               |-> "",
                       category          |-> Restaurado,
                       costUSD           |-> quotation.items[i].cost_usd,
                       suggestedPriceUSD |-> Zero],
         quantity |-> quotation.items[i].qty]]

\* the at-cost rule of the exports: by the frozen name
isItemEspecial(item) ==
    \/ includes(toLowerCase(item.name), ItemEspecialText)
    \/ includes(toLowerCase(item.name), ManualText)

frozenLineCostCLP(item, rate) == Times(Times(item.cost_usd, Num(item.qty)), rate)

RECURSIVE exportAtCostFrom(_, _, _)
exportAtCostFrom(items, rate, acc) ==
    IF items = <<>> THEN acc
    ELSE exportAtCostFrom(Tail(items), rate,
             IF isItemEspecial(Head(items)) THEN Plus(acc, frozenLineCostCLP(Head(items), rate))
             ELSE acc)

RECURSIVE exportFlexibleCostFrom(_, _, _)
exportFlexibleCostFrom(items, rate, acc) ==
    IF items = <<>> THEN acc
    ELSE exportFlexibleCostFrom(Tail(items), rate,
             IF ~isItemEspecial(Head(items)) THEN Plus(acc, frozenLineCostCLP(Head(items), rate))
             ELSE acc)

\* generateInternalExport: the margin it prints
displayMarginPercent(quotation) ==
    LET subtotal        == MathRound(quotation.sale_price_clp)
        totalAtCostVal  == exportAtCostFrom(quotation.items, quotation.exchange_rate, Zero)
        marginVal       == Minus(subtotal, quotation.total_cost_clp)
        flexibleSaleVal == Minus(subtotal, totalAtCostVal)
    IN  IF Less(Zero, flexibleSaleVal)
        THEN Times(Over(marginVal, flexibleSaleVal), Num(100))
        ELSE Zero

\* generateClientExport: the multiplier of the flexible lines
flexMultiplier(quotation) ==
    LET atCost   == exportAtCostFrom(quotation.items, quotation.exchange_rate, Zero)
        flexible == exportFlexibleCostFrom(quotation.items, quotation.exchange_rate, Zero)
    IN  IF Less(Zero, flexible)
        THEN Over(Minus(quotation.sale_price_clp, atCost), flexible)
        ELSE Num(1)

\* generateClientExport: the rows of the table
clientLines(quotation) ==
    [i \in 1..Len(quotation.items) |->
        LET item           == quotation.items[i]
            itemMultiplier == IF isItemEspecial(item) THEN Num(1) ELSE flexMultiplier(quotation)
            unitCostCLP    == Times(item.cost_usd, quotation.exchange_rate)
            unitPriceCLP   == Times(unitCostCLP, itemMultiplier)
        IN  [unitPriceCLP |-> unitPriceCLP,
             lineTotalCLP |-> Times(unitPriceCLP, Num(item.qty))]]

NoExport == [kind |-> "none"]

\* no parseFile call has been made
NoParse == [phase |-> "idle", calls |-> 0]

internalDocument(quotation) ==
    [kind |-> "internal", id |-> quotation.id,
     displayMarginPercent |-> displayMarginPercent(quotation)]

clientDocument(quotation) ==
    [kind |-> "client", id |-> quotation.id,
     flexMultiplier |-> flexMultiplier(quotation),
     lines |-> clientLines(quotation)]

(***************************************************************************)
(* Helpers on sequences.                                                   *)
(***************************************************************************)
Range(seq) == {seq[i] : i \in 1..Len(seq)}

Reverse(seq) == [i \in 1..Len(seq) |-> seq[Len(seq) + 1 - i]]

RemoveAt(seq, i) == SubSeq(seq, 1, i - 1) \o SubSeq(seq, i + 1, Len(seq))

(***************************************************************************)
(* The catalog store: the rows of table 'products' and what fetchProducts  *)
(* makes of them.                                                          *)
(***************************************************************************)
\* the row of a product under an id
storeRow(product, id) ==
    [id |-> id, sku |-> product.sku, name |-> product.name, category |-> product.category,
     cost_usd |-> product.costUSD, msrp_usd |-> product.suggestedPriceUSD]

\* the rows of the store on mount
StoreRows == [i \in 1..Len(StoreCatalog) |-> storeRow(StoreCatalog[i], StoreCatalog[i].id)]

\* data.map(p => ({id: p.id, sku: p.sku, ...})) of fetchProducts
mappedProducts(data) ==
    [i \in 1..Len(data) |->
        [id |-> data[i].id, sku |-> data[i].sku, name |-> data[i].name,
         category |-> data[i].category, costUSD |-> data[i].cost_usd,
         suggestedPriceUSD |-> data[i].msrp_usd]]

\* .order('name', {ascending: true}): texts compared character by character
\* in the order of their codes
CodeOrder ==
    <<" ">> \o DigitChars \o SubSeq(UpperCase, 1, 26) \o SubSeq(LowerCase, 1, 26)
        \o SubSeq(UpperCase, 27, Len(UpperCase)) \o SubSeq(LowerCase, 27, Len(LowerCase))

charCode(c) ==
    IF \E i \in 1..Len(CodeOrder) : CodeOrder[i] = c
    THEN CHOOSE i \in 1..Len(CodeOrder) : CodeOrder[i] = c
    ELSE 0

RECURSIVE textBefore(_, _)
textBefore(a, b) ==
    IF b = <<>> THEN FALSE
    ELSE IF a = <<>> THEN TRUE
    ELSE IF charCode(Head(a)) # charCode(Head(b)) THEN charCode(Head(a)) < charCode(Head(b))
    ELSE textBefore(Tail(a), Tail(b))

RECURSIVE orderedByName(_)
orderedByName(rows) ==
    IF rows = <<>> THEN <<>>
    ELSE LET first == CHOOSE i \in 1..Len(rows) :
                          \A j \in 1..Len(rows) :
                              \/ textBefore(rows[i].name, rows[j].name)
                              \/ ~textBefore(rows[j].name, rows[i].name) /\ i <= j
         IN  <<rows[first]>> \o orderedByName(RemoveAt(rows, first))

\* initialProducts of mockProducts.ts: the first two of its products
initialProducts ==
    <<[id |-> "ar-001", sku |-> "", name |-> <<"I", "m", "p", "l", "a", "n", "t", "e", " ", "A", "n", "y", "R", "i", "d", "g", "e", " ", "(", "S", "t", "a", "n", "d", "a", "r", "d", ")">>,
       category |-> "Implantes", costUSD |-> Num(45), suggestedPriceUSD |-> Num(120)],
      [id |-> "ao-001", sku |-> "", name |-> <<"I", "m", "p", "l", "a", "n", "t", "e", " ", "A", "n", "y", "O", "n", "e", " ", "(", "I", "n", "t", "e", "r", "n", "a", "l", ")">>,
       category |-> "Implantes", costUSD |-> Num(38), suggestedPriceUSD |-> Num(95)]>>

\* the catalog fetchProducts sets for the rows of the store
fetchedProducts(rows) ==
    IF rows = <<>> THEN initialProducts ELSE mappedProducts(orderedByName(rows))


(***************************************************************************)
(* The state after the component has mounted: the mount effect has called  *)
(* fetchProducts and fetchExchangeRate, and neither has answered yet.      *)
(***************************************************************************)
Init ==
    /\ products = <<>>
    /\ productsFetch = TRUE
    /\ dealItems = <<>>
    /\ targetSalePrice = Zero
    /\ exchangeRate = Num(InitialExchangeRate)
    /\ ratePending = <<DefaultRetries>>
    /\ activeTab = "simulator"
    /\ simulations = <<>>
    /\ nextSimulationId = 1
    /\ savedQuotations = <<>>
    /\ quotationsFetch = FALSE
    /\ alertMsg = ""
    /\ exported = NoExport
    /\ parsing = NoParse
    /\ fetchError = FALSE
    /\ productsStore = StoreRows
    /\ nextProductId = 1
    /\ catalogCalls = <<>>
    /\ now = 2

\* alert() is modal: no handler, timer or response runs while the dialog is
\* open.  An export's rendering is taken to finish before the next event.
Ready == alertMsg = "" /\ exported = NoExport

OnSimulator == Ready /\ activeTab = "simulator"

\* the history list is rendered only when no fetch of it is in flight
OnHistory == Ready /\ activeTab = "history" /\ ~quotationsFetch

\* fetchProducts answers with the rows of the store
FetchProductsDone ==
    /\ Ready /\ productsFetch
    /\ products' = fetchedProducts(productsStore)
    /\ productsFetch' = FALSE
    /\ UNCHANGED <<catalogVars, fetchError, parsing, dealItems, targetSalePrice, exchangeRate, ratePending, activeTab,
                   simulations, nextSimulationId, savedQuotations, quotationsFetch,
                   alertMsg, exported>>

\* fetchProducts, the store having answered with an error: the fallback catalog
FetchProductsFailed ==
    /\ Ready /\ productsFetch
    /\ products' = initialProducts
    /\ productsFetch' = FALSE
    /\ UNCHANGED <<catalogVars, fetchError, parsing, dealItems, targetSalePrice, exchangeRate, ratePending, activeTab,
                   simulations, nextSimulationId, savedQuotations, quotationsFetch,
                   alertMsg, exported>>

\* the deal after addItem(product)
withItemAdded(items, product) ==
    IF \E i \in 1..Len(items) : items[i].product.id = product.id
    THEN [i \in 1..Len(items) |->
             IF items[i].product.id = product.id
             THEN [items[i] EXCEPT !.quantity = @ + 1] ELSE items[i]]
    ELSE Append(items, [product |-> product, quantity |-> 1])

addItem(product) ==
    /\ OnSimulator
    /\ Len(ratePending) < MaxPending
    /\ Len(withItemAdded(dealItems, product)) <= MaxDeal
    /\ \A i \in 1..Len(dealItems) :
           dealItems[i].product.id = product.id => dealItems[i].quantity < MaxQty
    /\ dealItems' = withItemAdded(dealItems, product)
    /\ ratePending' = Append(ratePending, DefaultRetries)
    /\ fetchError' = FALSE
    /\ targetSalePrice' =
           autoSeed(dealItems, exchangeRate, dealItems', exchangeRate, targetSalePrice)
    /\ UNCHANGED <<catalogVars, parsing, products, productsFetch, exchangeRate, activeTab, simulations,
                   nextSimulationId, savedQuotations, quotationsFetch, alertMsg, exported>>

removeItem(productId) ==
    /\ OnSimulator
    /\ dealItems' = SelectSeq(dealItems, LAMBDA item : item.product.id # productId)
    /\ targetSalePrice' =
           autoSeed(dealItems, exchangeRate, dealItems', exchangeRate, targetSalePrice)
    /\ UNCHANGED <<catalogVars, fetchError, parsing, products, productsFetch, exchangeRate, ratePending, activeTab, simulations,
                   nextSimulationId, savedQuotations, quotationsFetch, alertMsg, exported>>

\* a variant that stores the quantity as given
updateQuantityUnclamped(productId, quantity) ==
    /\ OnSimulator
    /\ dealItems' = [i \in 1..Len(dealItems) |->
                        IF dealItems[i].product.id = productId
                        THEN [dealItems[i] EXCEPT !.quantity = quantity]
                        ELSE dealItems[i]]
    /\ targetSalePrice' =
           autoSeed(dealItems, exchangeRate, dealItems', exchangeRate, targetSalePrice)
    /\ UNCHANGED <<catalogVars, fetchError, parsing, products, productsFetch, exchangeRate, ratePending, activeTab, simulations,
                   nextSimulationId, savedQuotations, quotationsFetch, alertMsg, exported>>

updateQuantity(productId, quantity) ==
    /\ OnSimulator
    /\ dealItems' = [i \in 1..Len(dealItems) |->
                        IF dealItems[i].product.id = productId
                        THEN [dealItems[i] EXCEPT !.quantity = IF quantity < 0 THEN 0 ELSE quantity]
                        ELSE dealItems[i]]
    /\ targetSalePrice' =
           autoSeed(dealItems, exchangeRate, dealItems', exchangeRate, targetSalePrice)
    /\ UNCHANGED <<catalogVars, fetchError, parsing, products, productsFetch, exchangeRate, ratePending, activeTab, simulations,
                   nextSimulationId, savedQuotations, quotationsFetch, alertMsg, exported>>

\* clearDeal, the user confirming or cancelling
\* the quantity input of a line item is edited
quantityInput(productId, text) == updateQuantity(productId, orZero(parseInt(text)).n)

clearDeal ==
    /\ OnSimulator
    /\ dealItems # <<>>
    /\ \/ /\ dealItems' = <<>>
          /\ targetSalePrice' = Zero
       \/ UNCHANGED <<dealItems, targetSalePrice>>
    /\ UNCHANGED <<catalogVars, fetchError, parsing, products, productsFetch, exchangeRate, ratePending, activeTab, simulations,
                   nextSimulationId, savedQuotations, quotationsFetch, alertMsg, exported>>

\* the sale-price input: setTargetSalePrice(parseFloat(value) || 0)
setTargetSalePrice(value) ==
    /\ OnSimulator
    /\ targetSalePrice' = value
    /\ UNCHANGED <<catalogVars, fetchError, parsing, products, productsFetch, dealItems, exchangeRate, ratePending, activeTab,
                   simulations, nextSimulationId, savedQuotations, quotationsFetch,
                   alertMsg, exported>>

\* String(n) of an integer n >= 0
RECURSIVE numberText(_)
numberText(n) ==
    IF n < 10 THEN <<DigitChars[n + 1]>>
    ELSE numberText(n \div 10) \o <<DigitChars[(n % 10) + 1]>>

\* the figure the tax-inclusive price input shows
shownPriceWithIva(price) == MathRound(Times(price, Frac(119, 100)))

\* a variant that cuts the decimals of the price off
priceWithIvaInputTruncating(text) ==
    /\ OnSimulator
    /\ Less(Zero, targetSalePrice)
    /\ targetSalePrice' =
           LET priceWithIva == parseFloat(text)
               quotient == Over(priceWithIva, Frac(119, 100))
           IN  IF IsNum(priceWithIva)
               THEN Num(quotient.n \div quotient.d)
               ELSE Zero
    /\ UNCHANGED <<catalogVars, fetchError, parsing, products, productsFetch, dealItems, exchangeRate, ratePending, activeTab,
                   simulations, nextSimulationId, savedQuotations, quotationsFetch,
                   alertMsg, exported>>

\* the tax-inclusive price input, rendered while the price is > 0
priceWithIvaInput(text) ==
    /\ OnSimulator
    /\ Less(Zero, targetSalePrice)
    /\ targetSalePrice' =
           LET priceWithIva == parseFloat(text)
           IN  IF IsNum(priceWithIva)
               THEN MathRound(Over(priceWithIva, Frac(119, 100)))
               ELSE Zero
    /\ UNCHANGED <<catalogVars, fetchError, parsing, products, productsFetch, dealItems, exchangeRate, ratePending, activeTab,
                   simulations, nextSimulationId, savedQuotations, quotationsFetch,
                   alertMsg, exported>>

\* the figure shown is typed again into the tax-inclusive price input
priceWithIvaReentered == priceWithIvaInput(numberText(shownPriceWithIva(targetSalePrice).n))

\* a variant that solves over the flexible cost only
priceForMarginOverFlexibleCost(text, items, rate, price) ==
    LET margin == parseFloat(text)
    IN  IF /\ IsNum(margin)
           /\ Less(Zero, margin)
           /\ Less(margin, Num(100))
           /\ Less(Zero, totalCostCLP(items, rate))
        THEN MathRound(Over(totalFlexibleCostCLP(items, rate),
                            Minus(Num(1), Over(margin, Num(100)))))
        ELSE price

\* the price the desired-margin input sets
priceForMargin(text, items, rate, price) ==
    LET margin == parseFloat(text)
    IN  IF /\ IsNum(margin)
           /\ Less(Zero, margin)
           /\ Less(margin, Num(100))
           /\ Less(Zero, totalCostCLP(items, rate))
        THEN MathRound(Over(totalCostCLP(items, rate),
                            Minus(Num(1), Over(margin, Num(100)))))
        ELSE price

\* the desired-margin input
marginInput(text) ==
    /\ OnSimulator
    /\ targetSalePrice' = priceForMargin(text, dealItems, exchangeRate, targetSalePrice)
    /\ UNCHANGED <<catalogVars, fetchError, parsing, products, productsFetch, dealItems, exchangeRate, ratePending, activeTab,
                   simulations, nextSimulationId, savedQuotations, quotationsFetch,
                   alertMsg, exported>>

\* the exchange-rate input of the header: setExchangeRate(parseFloat(value) || 0)
setExchangeRate(value) ==
    /\ Ready
    /\ exchangeRate' = value
    /\ targetSalePrice' =
           autoSeed(dealItems, exchangeRate, dealItems, exchangeRate', targetSalePrice)
    /\ UNCHANGED <<catalogVars, fetchError, parsing, products, productsFetch, dealItems, ratePending, activeTab, simulations,
                   nextSimulationId, savedQuotations, quotationsFetch, alertMsg, exported>>

\* a call of fetchExchangeRate() from the refresh button or the 30-minute timer
fetchExchangeRate ==
    /\ Ready
    /\ Len(ratePending) < MaxPending
    /\ ratePending' = Append(ratePending, DefaultRetries)
    /\ fetchError' = FALSE
    /\ UNCHANGED <<catalogVars, parsing, products, productsFetch, dealItems, targetSalePrice, exchangeRate, activeTab,
                   simulations, nextSimulationId, savedQuotations, quotationsFetch,
                   alertMsg, exported>>

\* the 30-minute timer set at mount calls fetchExchangeRate()
intervalTick == fetchExchangeRate

\* the rate service answers a pending call
fetchExchangeRateOk(i, rate) ==
    /\ Ready
    /\ i \in 1..Len(ratePending)
    /\ ratePending' = RemoveAt(ratePending, i)
    /\ exchangeRate' = rate
    /\ targetSalePrice' =
           autoSeed(dealItems, exchangeRate, dealItems, exchangeRate', targetSalePrice)
    /\ UNCHANGED <<catalogVars, fetchError, parsing, products, productsFetch, dealItems, activeTab, simulations,
                   nextSimulationId, savedQuotations, quotationsFetch, alertMsg, exported>>

\* a variant that repeats the call once more
fetchExchangeRateFailedRetryingAtZero(i) ==
    /\ Ready
    /\ i \in 1..Len(ratePending)
    /\ ratePending' = IF ratePending[i] >= 0
                      THEN [ratePending EXCEPT ![i] = @ - 1]
                      ELSE RemoveAt(ratePending, i)
    /\ fetchError' = (ratePending[i] < 0)
    /\ UNCHANGED <<catalogVars, parsing, products, productsFetch, dealItems, targetSalePrice, exchangeRate, activeTab,
                   simulations, nextSimulationId, savedQuotations, quotationsFetch,
                   alertMsg, exported>>

\* a pending call fails: it is repeated after 2 seconds while retries are left
fetchExchangeRateFailed(i) ==
    /\ Ready
    /\ i \in 1..Len(ratePending)
    /\ ratePending' = IF ratePending[i] > 0
                      THEN [ratePending EXCEPT ![i] = @ - 1]
                      ELSE RemoveAt(ratePending, i)
    /\ fetchError' = (ratePending[i] = 0)
    /\ UNCHANGED <<catalogVars, parsing, products, productsFetch, dealItems, targetSalePrice, exchangeRate, activeTab,
                   simulations, nextSimulationId, savedQuotations, quotationsFetch,
                   alertMsg, exported>>


\* a click on the tab that is not shown; showing the history tab fetches the list
setActiveTab(tab) ==
    /\ Ready
    /\ tab # activeTab
    /\ activeTab' = tab
    /\ quotationsFetch' = (quotationsFetch \/ tab = "history")
    /\ UNCHANGED <<catalogVars, fetchError, parsing, products, productsFetch, dealItems, targetSalePrice, exchangeRate,
                   ratePending, simulations, nextSimulationId, savedQuotations,
                   alertMsg, exported>>

\* fetchSavedQuotations answers: the store's records, newest first
fetchSavedQuotationsDone ==
    /\ Ready /\ quotationsFetch
    /\ savedQuotations' = Reverse(simulations)
    /\ quotationsFetch' = FALSE
    /\ UNCHANGED <<catalogVars, fetchError, parsing, products, productsFetch, dealItems, targetSalePrice, exchangeRate,
                   ratePending, activeTab, simulations, nextSimulationId, alertMsg, exported>>

fetchSavedQuotationsFailed ==
    /\ Ready /\ quotationsFetch
    /\ quotationsFetch' = FALSE
    /\ alertMsg' = FetchQuotationsErrorMsg
    /\ UNCHANGED <<catalogVars, fetchError, parsing, products, productsFetch, dealItems, targetSalePrice, exchangeRate,
                   ratePending, activeTab, simulations, nextSimulationId, savedQuotations,
                   exported>>

\* a variant that rejects only a negative price
saveSimulationAcceptingZeroPrice ==
    /\ OnSimulator
    /\ IF dealItems = <<>> \/ Less(targetSalePrice, Zero)
       THEN /\ alertMsg' = SaveRejectedMsg
            /\ UNCHANGED <<simulations, nextSimulationId, ratePending, quotationsFetch, fetchError>>
       ELSE \/ /\ nextSimulationId <= MaxSaved
               /\ Len(ratePending) < MaxPending
               /\ simulations' =
                      Append(simulations,
                             storedRecord(nextSimulationId,
                                 simulationRecord(dealItems, exchangeRate, targetSalePrice)))
               /\ nextSimulationId' = nextSimulationId + 1
               /\ alertMsg' = SaveOkMsg
               /\ ratePending' = Append(ratePending, DefaultRetries)
               /\ fetchError' = FALSE
               /\ quotationsFetch' = TRUE
            \/ /\ alertMsg' = SaveErrorMsg
               /\ UNCHANGED <<simulations, nextSimulationId, ratePending, quotationsFetch, fetchError>>
    /\ UNCHANGED <<catalogVars, parsing, products, productsFetch, dealItems, targetSalePrice, exchangeRate,
                   activeTab, savedQuotations, exported>>

\* saveSimulation: rejected, stored, or refused by the store
saveSimulation ==
    /\ OnSimulator
    /\ IF dealItems = <<>> \/ LessEq(targetSalePrice, Zero)
       THEN /\ alertMsg' = SaveRejectedMsg
            /\ UNCHANGED <<simulations, nextSimulationId, ratePending, quotationsFetch, fetchError>>
       ELSE \/ /\ nextSimulationId <= MaxSaved
               /\ Len(ratePending) < MaxPending
               /\ simulations' =
                      Append(simulations,
                             storedRecord(nextSimulationId,
                                 simulationRecord(dealItems, exchangeRate, targetSalePrice)))
               /\ nextSimulationId' = nextSimulationId + 1
               /\ alertMsg' = SaveOkMsg
               /\ ratePending' = Append(ratePending, DefaultRetries)
               /\ fetchError' = FALSE
               /\ quotationsFetch' = TRUE
            \/ /\ alertMsg' = SaveErrorMsg
               /\ UNCHANGED <<simulations, nextSimulationId, ratePending, quotationsFetch, fetchError>>
    /\ UNCHANGED <<catalogVars, parsing, products, productsFetch, dealItems, targetSalePrice, exchangeRate,
                   activeTab, savedQuotations, exported>>

\* a variant that takes the quotation out of the store as it restores it
duplicateQuotationConsuming(quotation) ==
    /\ OnHistory
    /\ dealItems' = recreatedItems(quotation)
    /\ exchangeRate' = quotation.exchange_rate
    /\ targetSalePrice' =
           autoSeed(dealItems, exchangeRate, dealItems', exchangeRate', quotation.sale_price_clp)
    /\ activeTab' = "simulator"
    /\ alertMsg' = LoadedMsg
    /\ simulations' = SelectSeq(simulations, LAMBDA q : q.id # quotation.id)
    /\ UNCHANGED <<catalogVars, fetchError, parsing, products, productsFetch, ratePending, nextSimulationId,
                   savedQuotations, quotationsFetch, exported>>

duplicateQuotation(quotation) ==
    /\ OnHistory
    /\ dealItems' = recreatedItems(quotation)
    /\ exchangeRate' = quotation.exchange_rate
    /\ targetSalePrice' =
           autoSeed(dealItems, exchangeRate, dealItems', exchangeRate', quotation.sale_price_clp)
    /\ activeTab' = "simulator"
    /\ alertMsg' = LoadedMsg
    /\ UNCHANGED <<catalogVars, fetchError, parsing, products, productsFetch, ratePending, simulations, nextSimulationId,
                   savedQuotations, quotationsFetch, exported>>

\* deleteQuotation, the user having confirmed: deleted, or refused by the store
deleteQuotation(id) ==
    /\ OnHistory
    /\ \/ /\ simulations' = SelectSeq(simulations, LAMBDA q : q.id # id)
          /\ savedQuotations' = SelectSeq(savedQuotations, LAMBDA q : q.id # id)
          /\ alertMsg' = DeletedMsg
       \/ /\ alertMsg' = DeleteErrorMsg
          /\ UNCHANGED <<simulations, savedQuotations>>
    /\ UNCHANGED <<catalogVars, fetchError, parsing, products, productsFetch, dealItems, targetSalePrice, exchangeRate,
                   ratePending, activeTab, nextSimulationId, quotationsFetch, exported>>

\* generateInternalExport, up to the rendering of its document
generateInternalExport(quotation) ==
    /\ OnHistory
    /\ exported' = internalDocument(quotation)
    /\ UNCHANGED <<catalogVars, fetchError, parsing, products, productsFetch, dealItems, targetSalePrice, exchangeRate,
                   ratePending, activeTab, simulations, nextSimulationId, savedQuotations,
                   quotationsFetch, alertMsg>>

\* generateClientExport, up to the rendering of its document
generateClientExport(quotation) ==
    /\ OnHistory
    /\ exported' = clientDocument(quotation)
    /\ UNCHANGED <<catalogVars, fetchError, parsing, products, productsFetch, dealItems, targetSalePrice, exchangeRate,
                   ratePending, activeTab, simulations, nextSimulationId, savedQuotations,
                   quotationsFetch, alertMsg>>

\* the rendering is done: the document is removed and the image downloaded
exportDone ==
    /\ alertMsg = "" /\ exported # NoExport
    /\ exported' = NoExport
    /\ alertMsg' = IF exported.kind = "internal" THEN InternalExportMsg ELSE ClientExportMsg
    /\ UNCHANGED <<catalogVars, fetchError, parsing, products, productsFetch, dealItems, targetSalePrice, exchangeRate,
                   ratePending, activeTab, simulations, nextSimulationId, savedQuotations,
                   quotationsFetch>>

\* the user closes the alert dialog
closeAlert ==
    /\ alertMsg # ""
    /\ alertMsg' = ""
    /\ UNCHANGED <<catalogVars, fetchError, parsing, products, productsFetch, dealItems, targetSalePrice, exchangeRate,
                   ratePending, activeTab, simulations, nextSimulationId, savedQuotations,
                   quotationsFetch, exported>>

(***************************************************************************)
(* The catalog handlers.  Each awaits a call on the store; the call is an   *)
(* entry of catalogCalls from the handler's start to the store's answer,    *)
(* and the answer and what the handler does after its await are one step.   *)
(* The dialogs of confirm() and prompt() are answered by the user in the    *)
(* step that starts the handler; a handler the user cancels changes         *)
(* nothing.  The fields of the product form are inputs of createUniqueProduct. *)
(***************************************************************************)
NameMissingMsg == "Por favor completa nombre y costo"

CostInvalidMsg == "El costo debe ser un numero valido"

NameExistsMsg == "Ya existe un producto con el nombre. Por favor usa un nombre diferente."

NameInUseMsg == "El nombre ya esta en uso. Por favor elige otro."

CreateErrorMsg == "Error al guardar en la base de datos"

ProductDeletedMsg == "Producto eliminado con exito."

ProductDeleteErrorMsg == "Error al eliminar producto"

ProductMovedMsg == "Producto movido."

ProductMoveErrorMsg == "Error al mover producto"

SyncOkMsg == "Catalogo maestro actualizado con exito. El sistema recordara esta lista hasta que subas otra."

SyncErrorMsg == "Error al sincronizar"

\* a call in flight of a handler: of createUniqueProduct with its tentative
\* product, of deleteProduct with its product, of updateProductCategory with
\* its product, the new category and the catalog the handler was rendered
\* with, of syncProductsToSupabase with its step and that catalog
catalogCall(op, step, product, newCategory, catalog) ==
    [op |-> op, step |-> step, product |-> product, newCategory |-> newCategory,
     products |-> catalog]

\* the id the store gives to its next row
storeId(n) == "db-" \o ToString(n)

\* isSyncing
isSyncing == \E k \in 1..Len(catalogCalls) : catalogCalls[k].op = "sync"

\* products.filter(p => p.id !== id)
withoutProduct(catalog, id) == SelectSeq(catalog, LAMBDA p : p.id # id)

\* the tentative product of createUniqueProduct
newProduct(name, cost) ==
    [id |-> "unique-" \o ToString(now), name |-> name, costUSD |-> cost,
     suggestedPriceUSD |-> cost, category |-> ProductosUnicos,
     sku |-> "UNIQUE-" \o ToString(now)]

\* createUniqueProduct, up to its await
createUniqueProduct(newProductName, newProductCost) ==
    /\ OnSimulator
    /\ LET cost == parseFloat(newProductCost)
       IN  IF newProductName = <<>> \/ newProductCost = <<>>
           THEN alertMsg' = NameMissingMsg /\ UNCHANGED <<products, catalogCalls, now>>
           ELSE IF ~IsNum(cost)
           THEN alertMsg' = CostInvalidMsg /\ UNCHANGED <<products, catalogCalls, now>>
           ELSE IF \E i \in 1..Len(products) :
                       toLowerCase(products[i].name) = toLowerCase(newProductName)
           THEN alertMsg' = NameExistsMsg /\ UNCHANGED <<products, catalogCalls, now>>
           ELSE /\ Len(catalogCalls) < MaxCalls
                /\ now < MaxNow
                /\ nextProductId <= MaxProductId
                /\ products' = <<newProduct(newProductName, cost)>> \o products
                /\ catalogCalls' =
                       Append(catalogCalls,
                              catalogCall("create", "insert", newProduct(newProductName, cost),
                                          "", <<>>))
                /\ now' = now + 1
                /\ UNCHANGED alertMsg
    /\ UNCHANGED <<productsStore, nextProductId, fetchError, parsing, productsFetch, dealItems,
                   targetSalePrice, exchangeRate, ratePending, activeTab, simulations,
                   nextSimulationId, savedQuotations, quotationsFetch, exported>>

\* the insert has stored the row: the tentative id becomes the store's
createUniqueProductDone(k) ==
    /\ Ready
    /\ k \in 1..Len(catalogCalls)
    /\ catalogCalls[k].op = "create"
    /\ productsStore' =
           Append(productsStore, storeRow(catalogCalls[k].product, storeId(nextProductId)))
    /\ nextProductId' = nextProductId + 1
    /\ products' = [i \in 1..Len(products) |->
                       IF products[i].id = catalogCalls[k].product.id
                       THEN [products[i] EXCEPT !.id = storeId(nextProductId)]
                       ELSE products[i]]
    /\ catalogCalls' = RemoveAt(catalogCalls, k)
    /\ UNCHANGED <<now, fetchError, parsing, productsFetch, dealItems, targetSalePrice,
                   exchangeRate, ratePending, activeTab, simulations, nextSimulationId,
                   savedQuotations, quotationsFetch, alertMsg, exported>>

\* the insert has answered with an error of a code: rollback and alert
createUniqueProductFailed(k, code) ==
    /\ Ready
    /\ k \in 1..Len(catalogCalls)
    /\ catalogCalls[k].op = "create"
    /\ products' = withoutProduct(products, catalogCalls[k].product.id)
    /\ alertMsg' = IF code = "23505" THEN NameInUseMsg ELSE CreateErrorMsg
    /\ catalogCalls' = RemoveAt(catalogCalls, k)
    /\ UNCHANGED <<productsStore, nextProductId, now, fetchError, parsing, productsFetch,
                   dealItems, targetSalePrice, exchangeRate, ratePending, activeTab,
                   simulations, nextSimulationId, savedQuotations, quotationsFetch, exported>>

\* the insert has thrown: rollback
createUniqueProductThrew(k) ==
    /\ Ready
    /\ k \in 1..Len(catalogCalls)
    /\ catalogCalls[k].op = "create"
    /\ products' = withoutProduct(products, catalogCalls[k].product.id)
    /\ catalogCalls' = RemoveAt(catalogCalls, k)
    /\ UNCHANGED <<productsStore, nextProductId, now, fetchError, parsing, productsFetch,
                   dealItems, targetSalePrice, exchangeRate, ratePending, activeTab,
                   simulations, nextSimulationId, savedQuotations, quotationsFetch, alertMsg,
                   exported>>

\* deleteProduct, confirmed, up to its await
deleteProduct(product) ==
    /\ OnSimulator
    /\ Len(catalogCalls) < MaxCalls
    /\ catalogCalls' = Append(catalogCalls, catalogCall("delete", "delete", product, "", <<>>))
    /\ UNCHANGED <<productsStore, nextProductId, now, fetchError, parsing, products,
                   productsFetch, dealItems, targetSalePrice, exchangeRate, ratePending,
                   activeTab, simulations, nextSimulationId, savedQuotations, quotationsFetch,
                   alertMsg, exported>>

\* a variant that also takes the product's lines out of the stored quotations
deleteProductDoneCascading(k) ==
    /\ Ready
    /\ k \in 1..Len(catalogCalls)
    /\ catalogCalls[k].op = "delete"
    /\ productsStore' = SelectSeq(productsStore, LAMBDA row : row.id # catalogCalls[k].product.id)
    /\ products' = withoutProduct(products, catalogCalls[k].product.id)
    /\ alertMsg' = ProductDeletedMsg
    /\ catalogCalls' = RemoveAt(catalogCalls, k)
    /\ simulations' =
           [i \in 1..Len(simulations) |->
               [simulations[i] EXCEPT !.items =
                   SelectSeq(@, LAMBDA item : item.name # catalogCalls[k].product.name)]]
    /\ UNCHANGED <<nextProductId, now, fetchError, parsing, productsFetch, dealItems,
                   targetSalePrice, exchangeRate, ratePending, activeTab,
                   nextSimulationId, savedQuotations, quotationsFetch, exported>>

\* the store has deleted the row
deleteProductDone(k) ==
    /\ Ready
    /\ k \in 1..Len(catalogCalls)
    /\ catalogCalls[k].op = "delete"
    /\ productsStore' = SelectSeq(productsStore, LAMBDA row : row.id # catalogCalls[k].product.id)
    /\ products' = withoutProduct(products, catalogCalls[k].product.id)
    /\ alertMsg' = ProductDeletedMsg
    /\ catalogCalls' = RemoveAt(catalogCalls, k)
    /\ UNCHANGED <<nextProductId, now, fetchError, parsing, productsFetch, dealItems,
                   targetSalePrice, exchangeRate, ratePending, activeTab, simulations,
                   nextSimulationId, savedQuotations, quotationsFetch, exported>>

\* the delete has failed
deleteProductFailed(k) ==
    /\ Ready
    /\ k \in 1..Len(catalogCalls)
    /\ catalogCalls[k].op = "delete"
    /\ alertMsg' = ProductDeleteErrorMsg
    /\ catalogCalls' = RemoveAt(catalogCalls, k)
    /\ UNCHANGED <<productsStore, nextProductId, now, fetchError, parsing, products,
                   productsFetch, dealItems, targetSalePrice, exchangeRate, ratePending,
                   activeTab, simulations, nextSimulationId, savedQuotations, quotationsFetch,
                   exported>>

\* updateProductCategory (from moveProductToList or removeProductFromList),
\* up to its await
updateProductCategory(product, newCategory) ==
    /\ OnSimulator
    /\ Len(catalogCalls) < MaxCalls
    /\ catalogCalls' =
           Append(catalogCalls, catalogCall("update", "update", product, newCategory, products))
    /\ UNCHANGED <<productsStore, nextProductId, now, fetchError, parsing, products,
                   productsFetch, dealItems, targetSalePrice, exchangeRate, ratePending,
                   activeTab, simulations, nextSimulationId, savedQuotations, quotationsFetch,
                   alertMsg, exported>>

\* the store has updated the row: setProducts(products.map(...)) over the
\* catalog the handler was rendered with
updateProductCategoryDone(k) ==
    /\ Ready
    /\ k \in 1..Len(catalogCalls)
    /\ catalogCalls[k].op = "update"
    /\ productsStore' = [i \in 1..Len(productsStore) |->
                            IF productsStore[i].id = catalogCalls[k].product.id
                            THEN [productsStore[i] EXCEPT !.category = catalogCalls[k].newCategory]
                            ELSE productsStore[i]]
    /\ products' = [i \in 1..Len(catalogCalls[k].products) |->
                       IF catalogCalls[k].products[i].id = catalogCalls[k].product.id
                       THEN [catalogCalls[k].products[i] EXCEPT
                                !.category = catalogCalls[k].newCategory]
                       ELSE catalogCalls[k].products[i]]
    /\ alertMsg' = ProductMovedMsg
    /\ catalogCalls' = RemoveAt(catalogCalls, k)
    /\ UNCHANGED <<nextProductId, now, fetchError, parsing, productsFetch, dealItems,
                   targetSalePrice, exchangeRate, ratePending, activeTab, simulations,
                   nextSimulationId, savedQuotations, quotationsFetch, exported>>

\* the update has failed
updateProductCategoryFailed(k) ==
    /\ Ready
    /\ k \in 1..Len(catalogCalls)
    /\ catalogCalls[k].op = "update"
    /\ alertMsg' = ProductMoveErrorMsg
    /\ catalogCalls' = RemoveAt(catalogCalls, k)
    /\ UNCHANGED <<productsStore, nextProductId, now, fetchError, parsing, products,
                   productsFetch, dealItems, targetSalePrice, exchangeRate, ratePending,
                   activeTab, simulations, nextSimulationId, savedQuotations, quotationsFetch,
                   exported>>

\* syncProductsToSupabase, confirmed, up to the await of its delete
syncProductsToSupabase ==
    /\ Ready
    /\ ~isSyncing
    /\ products # <<>>
    /\ Len(catalogCalls) < MaxCalls
    /\ nextProductId + Len(products) - 1 <= MaxProductId
    /\ catalogCalls' =
           Append(catalogCalls, catalogCall("sync", "delete", products[1], "", products))
    /\ UNCHANGED <<productsStore, nextProductId, now, fetchError, parsing, products,
                   productsFetch, dealItems, targetSalePrice, exchangeRate, ratePending,
                   activeTab, simulations, nextSimulationId, savedQuotations, quotationsFetch,
                   alertMsg, exported>>

\* the store has deleted every row: the insert is awaited
syncDeleteDone(k) ==
    /\ Ready
    /\ k \in 1..Len(catalogCalls)
    /\ catalogCalls[k].op = "sync" /\ catalogCalls[k].step = "delete"
    /\ productsStore' = <<>>
    /\ catalogCalls' = [catalogCalls EXCEPT ![k].step = "insert"]
    /\ UNCHANGED <<nextProductId, now, fetchError, parsing, products, productsFetch,
                   dealItems, targetSalePrice, exchangeRate, ratePending, activeTab,
                   simulations, nextSimulationId, savedQuotations, quotationsFetch, alertMsg,
                   exported>>

\* the delete has failed
syncDeleteFailed(k) ==
    /\ Ready
    /\ k \in 1..Len(catalogCalls)
    /\ catalogCalls[k].op = "sync" /\ catalogCalls[k].step = "delete"
    /\ alertMsg' = SyncErrorMsg
    /\ catalogCalls' = RemoveAt(catalogCalls, k)
    /\ UNCHANGED <<productsStore, nextProductId, now, fetchError, parsing, products,
                   productsFetch, dealItems, targetSalePrice, exchangeRate, ratePending,
                   activeTab, simulations, nextSimulationId, savedQuotations, quotationsFetch,
                   exported>>

\* the store has inserted the rows of the catalog: fetchProducts is called
syncInsertDone(k) ==
    /\ Ready
    /\ k \in 1..Len(catalogCalls)
    /\ catalogCalls[k].op = "sync" /\ catalogCalls[k].step = "insert"
    /\ productsStore' =
           productsStore \o
               [i \in 1..Len(catalogCalls[k].products) |->
                   storeRow(catalogCalls[k].products[i], storeId(nextProductId + i - 1))]
    /\ nextProductId' = nextProductId + Len(catalogCalls[k].products)
    /\ alertMsg' = SyncOkMsg
    /\ productsFetch' = TRUE
    /\ catalogCalls' = RemoveAt(catalogCalls, k)
    /\ UNCHANGED <<now, fetchError, parsing, products, dealItems, targetSalePrice,
                   exchangeRate, ratePending, activeTab, simulations, nextSimulationId,
                   savedQuotations, quotationsFetch, exported>>

\* the insert has failed
syncInsertFailed(k) ==
    /\ Ready
    /\ k \in 1..Len(catalogCalls)
    /\ catalogCalls[k].op = "sync" /\ catalogCalls[k].step = "insert"
    /\ alertMsg' = SyncErrorMsg
    /\ catalogCalls' = RemoveAt(catalogCalls, k)
    /\ UNCHANGED <<productsStore, nextProductId, now, fetchError, parsing, products,
                   productsFetch, dealItems, targetSalePrice, exchangeRate, ratePending,
                   activeTab, simulations, nextSimulationId, savedQuotations, quotationsFetch,
                   exported>>

(***************************************************************************)
(* Import.  handleFileUpload awaits parseFile; what follows the await runs *)
(* in the same task as the callback that settles the promise, so that      *)
(* settling and the handler's continuation are one step.  One parseFile    *)
(* call is followed at a time, and a session makes up to MaxImports calls. *)
(***************************************************************************)
\* a variant that empties the deal before it awaits parseFile
handleFileUploadClearingFirst(file) ==
    /\ Ready
    /\ parsing.phase # "reading"
    /\ parsing.calls < MaxImports
    /\ IF extension(file.name) \in {CsvText, XlsxText, XlsText}
       THEN /\ parsing' = [phase |-> "reading", calls |-> parsing.calls + 1, file |-> file,
                           promise |-> "pending", value |-> <<>>]
            /\ UNCHANGED alertMsg
       ELSE /\ parsing' = [phase |-> "settled", calls |-> parsing.calls + 1, file |-> file,
                           promise |-> "rejected", value |-> <<>>]
            /\ alertMsg' = UnsupportedFormatMsg
    /\ dealItems' = <<>>
    /\ UNCHANGED <<catalogVars, fetchError, products, productsFetch, targetSalePrice, exchangeRate,
                   ratePending, activeTab, simulations, nextSimulationId, savedQuotations,
                   quotationsFetch, exported>>

\* a file is chosen: parseFile starts the reader, or rejects the extension
handleFileUpload(file) ==
    /\ Ready
    /\ parsing.phase # "reading"
    /\ parsing.calls < MaxImports
    /\ IF extension(file.name) \in {CsvText, XlsxText, XlsText}
       THEN /\ parsing' = [phase |-> "reading", calls |-> parsing.calls + 1, file |-> file,
                           promise |-> "pending", value |-> <<>>]
            /\ UNCHANGED alertMsg
       ELSE /\ parsing' = [phase |-> "settled", calls |-> parsing.calls + 1, file |-> file,
                           promise |-> "rejected", value |-> <<>>]
            /\ alertMsg' = UnsupportedFormatMsg
    /\ UNCHANGED <<catalogVars, fetchError, products, productsFetch, dealItems, targetSalePrice, exchangeRate,
                   ratePending, activeTab, simulations, nextSimulationId, savedQuotations,
                   quotationsFetch, exported>>

\* a variant that adds the parsed products to the catalog
parseResolvedMerging ==
    /\ Ready
    /\ parsing.phase = "reading"
    /\ extension(parsing.file.name) = CsvText \/ ~parsing.file.malformed
    /\ Len(ratePending) < MaxPending
    /\ parsing' = [parsing EXCEPT !.phase = "settled", !.promise = "resolved",
                                  !.value = parseFileValue(parsing.file)]
    /\ products' = products \o newProducts(parseFileValue(parsing.file))
    /\ dealItems' = <<>>
    /\ targetSalePrice' =
           autoSeed(dealItems, exchangeRate, dealItems', exchangeRate, targetSalePrice)
    /\ ratePending' = Append(ratePending, DefaultRetries)
    /\ fetchError' = FALSE
    /\ UNCHANGED <<catalogVars, productsFetch, exchangeRate, activeTab, simulations, nextSimulationId,
                   savedQuotations, quotationsFetch, alertMsg, exported>>

\* reader.onload, the decoder giving rows: the promise is resolved and
\* handleFileUpload replaces the catalog, empties the deal and refreshes the rate
parseResolved ==
    /\ Ready
    /\ parsing.phase = "reading"
    /\ extension(parsing.file.name) = CsvText \/ ~parsing.file.malformed
    /\ Len(ratePending) < MaxPending
    /\ parsing' = [parsing EXCEPT !.phase = "settled", !.promise = "resolved",
                                  !.value = parseFileValue(parsing.file)]
    /\ products' = newProducts(parseFileValue(parsing.file))
    /\ dealItems' = <<>>
    /\ targetSalePrice' =
           autoSeed(dealItems, exchangeRate, dealItems', exchangeRate, targetSalePrice)
    /\ ratePending' = Append(ratePending, DefaultRetries)
    /\ fetchError' = FALSE
    /\ UNCHANGED <<catalogVars, productsFetch, exchangeRate, activeTab, simulations, nextSimulationId,
                   savedQuotations, quotationsFetch, alertMsg, exported>>

\* reader.onload of a csv, Papa.parse calling error: the promise is rejected
\* and handleFileUpload alerts
parseRejected ==
    /\ Ready
    /\ parsing.phase = "reading"
    /\ extension(parsing.file.name) = CsvText /\ parsing.file.malformed
    /\ parsing' = [parsing EXCEPT !.phase = "settled", !.promise = "rejected"]
    /\ alertMsg' = DecodeErrorMsg
    /\ UNCHANGED <<catalogVars, fetchError, products, productsFetch, dealItems, targetSalePrice, exchangeRate,
                   ratePending, activeTab, simulations, nextSimulationId, savedQuotations,
                   quotationsFetch, exported>>

\* reader.onload of a workbook, XLSX.read throwing: the exception leaves the
\* callback, which neither resolves nor rejects
readerOnLoadThrew ==
    /\ Ready
    /\ parsing.phase = "reading"
    /\ extension(parsing.file.name) # CsvText /\ parsing.file.malformed
    /\ parsing' = [parsing EXCEPT !.phase = "threw"]
    /\ UNCHANGED <<catalogVars, fetchError, products, productsFetch, dealItems, targetSalePrice, exchangeRate,
                   ratePending, activeTab, simulations, nextSimulationId, savedQuotations,
                   quotationsFetch, alertMsg, exported>>

\* the read fails: the reader fires 'error', for which parseFile sets no handler
readerOnError ==
    /\ Ready
    /\ parsing.phase = "reading"
    /\ parsing' = [parsing EXCEPT !.phase = "readFailed"]
    /\ UNCHANGED <<catalogVars, fetchError, products, productsFetch, dealItems, targetSalePrice, exchangeRate,
                   ratePending, activeTab, simulations, nextSimulationId, savedQuotations,
                   quotationsFetch, alertMsg, exported>>

(***************************************************************************)
(* The next-state relations.  The whole machine (Next) is too large to     *)
(* explore, because every stored record is a copy of some earlier deal.    *)
(* It is explored in two parts: a session on the simulator tab that edits  *)
(* the deal (SpecEngine), and a session that starts from any deal such     *)
(* editing can have built and saves, browses, restores, exports and        *)
(* deletes quotations (SpecHistory).                                       *)
(***************************************************************************)
NextEngine ==
    \/ FetchProductsDone
    \/ \E product \in Range(products) : addItem(product)
    \/ \E item \in Range(dealItems) : removeItem(item.product.id)
    \/ \E item \in Range(dealItems), quantity \in QtyInputs :
           updateQuantity(item.product.id, quantity)
    \/ clearDeal
    \/ \E value \in PriceInputs : setTargetSalePrice(value)
    \/ \E text \in IvaTexts : priceWithIvaInput(text)
    \/ \E text \in MarginTexts : marginInput(text)
    \/ \E value \in RateInputs : setExchangeRate(value)
    \/ fetchExchangeRate
    \/ \E i \in 1..MaxPending, rate \in FetchedRates : fetchExchangeRateOk(i, rate)
    \/ \E i \in 1..MaxPending : fetchExchangeRateFailed(i)

NextHistory ==
    \/ \E tab \in {"simulator", "history"} : setActiveTab(tab)
    \/ fetchSavedQuotationsDone
    \/ fetchSavedQuotationsFailed
    \/ saveSimulation
    \/ \E quotation \in Range(savedQuotations) : duplicateQuotation(quotation)
    \/ \E quotation \in Range(savedQuotations) : deleteQuotation(quotation.id)
    \/ \E quotation \in Range(savedQuotations) : generateInternalExport(quotation)
    \/ \E quotation \in Range(savedQuotations) : generateClientExport(quotation)
    \/ exportDone
    \/ closeAlert
    \/ \E i \in 1..MaxPending, rate \in FetchedRates : fetchExchangeRateOk(i, rate)
    \/ \E i \in 1..MaxPending : fetchExchangeRateFailed(i)

SpecEngine == Init /\ [][NextEngine]_vars

(***************************************************************************)
(* The deals a session on the simulator tab can have built: up to MaxDeal  *)
(* distinct catalog products in any order (addItem), each with a quantity  *)
(* of 0..MaxQty (addItem, updateQuantity), the initial or a fetched rate,   *)
(* and any price typed.                                                    *)
(***************************************************************************)
BuiltDeals ==
    {items \in UNION {[1..n -> [product : Range(StoreCatalog), quantity : 0..MaxQty]] :
                         n \in 0..MaxDeal} :
        \A i, j \in 1..Len(items) : i # j => items[i].product.id # items[j].product.id}

InitHistory ==
    /\ products = StoreCatalog
    /\ productsFetch = FALSE
    /\ dealItems \in BuiltDeals
    /\ targetSalePrice \in PriceInputs
    /\ exchangeRate \in FetchedRates \cup {Num(InitialExchangeRate)}
    /\ ratePending = <<>>
    /\ activeTab = "simulator"
    /\ simulations = <<>>
    /\ nextSimulationId = 1
    /\ savedQuotations = <<>>
    /\ quotationsFetch = FALSE
    /\ alertMsg = ""
    /\ exported = NoExport
    /\ parsing = NoParse
    /\ fetchError = FALSE
    /\ productsStore = StoreRows
    /\ nextProductId = 1
    /\ catalogCalls = <<>>
    /\ now = 2

SpecHistory == InitHistory /\ [][NextHistory]_vars


(***************************************************************************)
(* Import (SpecImport): a session with a catalog and a deal imports the   *)
(* files of ImportFiles; SpecCoercion imports the files of CoercionFiles.  *)
(***************************************************************************)
ImportDeals ==
    {<<>>,
     <<[product |-> Implante, quantity |-> 1]>>,
     <<[product |-> PasajeAereo, quantity |-> 2], [product |-> Implante, quantity |-> 1]>>}

InitImport ==
    /\ products = StoreCatalog
    /\ productsFetch = FALSE
    /\ dealItems \in ImportDeals
    /\ targetSalePrice \in {Zero, Num(3800)}
    /\ exchangeRate = Num(InitialExchangeRate)
    /\ ratePending = <<>>
    /\ activeTab = "simulator"
    /\ simulations = <<>>
    /\ nextSimulationId = 1
    /\ savedQuotations = <<>>
    /\ quotationsFetch = FALSE
    /\ alertMsg = ""
    /\ exported = NoExport
    /\ parsing = NoParse
    /\ fetchError = FALSE
    /\ productsStore = StoreRows
    /\ nextProductId = 1
    /\ catalogCalls = <<>>
    /\ now = 2

NextImport ==
    \/ \E file \in ImportFiles : handleFileUpload(file)
    \/ parseResolved
    \/ parseRejected
    \/ readerOnLoadThrew
    \/ readerOnError
    \/ closeAlert
    \/ \E i \in 1..MaxPending : fetchExchangeRateFailed(i)

SpecImport == InitImport /\ [][NextImport]_vars

NextCoercion ==
    \/ \E file \in CoercionFiles : handleFileUpload(file)
    \/ parseResolved
    \/ readerOnError
    \/ \E i \in 1..MaxPending : fetchExchangeRateFailed(i)

SpecCoercion == InitImport /\ [][NextCoercion]_vars

\* Session (SpecSession): a deal is built from a one-product catalog, edited,
\* saved, restored and deleted, and a catalog is imported.
SessionFiles ==
    {[name |-> <<"a", ".", "c", "s", "v">>, grid |-> <<HeaderLine, <<<<"A", "1">>, <<"W", "i", "d", "g", "e", "t">>, <<"1", "0">>, <<"K", "i", "t", "s">>>>>>,
      malformed |-> FALSE]}

InitSession ==
    /\ products = <<Implante>>
    /\ productsFetch = FALSE
    /\ dealItems = <<>>
    /\ targetSalePrice = Zero
    /\ exchangeRate = Num(InitialExchangeRate)
    /\ ratePending = <<>>
    /\ activeTab = "simulator"
    /\ simulations = <<>>
    /\ nextSimulationId = 1
    /\ savedQuotations = <<>>
    /\ quotationsFetch = FALSE
    /\ alertMsg = ""
    /\ exported = NoExport
    /\ parsing = NoParse
    /\ fetchError = FALSE
    /\ productsStore = StoreRows
    /\ nextProductId = 1
    /\ catalogCalls = <<>>
    /\ now = 2

NextSession ==
    \/ \E product \in Range(products) : addItem(product)
    \/ \E item \in Range(dealItems) : removeItem(item.product.id)
    \/ \E item \in Range(dealItems), text \in QtyTexts : quantityInput(item.product.id, text)
    \/ clearDeal
    \/ \E file \in SessionFiles : handleFileUpload(file)
    \/ parseResolved
    \/ saveSimulation
    \/ \E tab \in {"simulator", "history"} : setActiveTab(tab)
    \/ fetchSavedQuotationsDone
    \/ \E quotation \in Range(savedQuotations) : duplicateQuotation(quotation)
    \/ \E quotation \in Range(savedQuotations) : deleteQuotation(quotation.id)
    \/ \E quotation \in Range(savedQuotations) : generateClientExport(quotation)
    \/ exportDone
    \/ closeAlert
    \/ \E i \in 1..MaxPending, rate \in FetchedRates : fetchExchangeRateOk(i, rate)
    \/ \E i \in 1..MaxPending : fetchExchangeRateFailed(i)

SpecSession == InitSession /\ [][NextSession]_vars

\* Labels (SpecLabels): the files of LabelFiles are imported.
NextLabels ==
    \/ \E file \in LabelFiles : handleFileUpload(file)
    \/ parseResolved
    \/ readerOnError
    \/ \E i \in 1..MaxPending : fetchExchangeRateFailed(i)

SpecLabels == InitImport /\ [][NextLabels]_vars

\* Sheets (SpecSheets): the workbooks of SheetFiles are imported.
NextSheets ==
    \/ \E file \in SheetFiles : handleFileUpload(file)
    \/ parseResolved
    \/ readerOnError
    \/ \E i \in 1..MaxPending : fetchExchangeRateFailed(i)

SpecSheets == InitImport /\ [][NextSheets]_vars

\* Tax (SpecTax): a whole sale price of up to MaxTaxPrice is shown with tax,
\* and the figure is typed again or replaced.
InitTax ==
    /\ products = StoreCatalog
    /\ productsFetch = FALSE
    /\ dealItems = <<>>
    /\ targetSalePrice \in {Num(p) : p \in 1..MaxTaxPrice}
    /\ exchangeRate = Num(InitialExchangeRate)
    /\ ratePending = <<>>
    /\ activeTab = "simulator"
    /\ simulations = <<>>
    /\ nextSimulationId = 1
    /\ savedQuotations = <<>>
    /\ quotationsFetch = FALSE
    /\ alertMsg = ""
    /\ exported = NoExport
    /\ parsing = NoParse
    /\ fetchError = FALSE
    /\ productsStore = StoreRows
    /\ nextProductId = 1
    /\ catalogCalls = <<>>
    /\ now = 2

NextTax ==
    \/ priceWithIvaReentered
    \/ \E text \in TaxTexts : priceWithIvaInput(text)

SpecTax == InitTax /\ [][NextTax]_vars

\* Restore (SpecRestore): the history tab shows a stored quotation, a rate
\* call of the save may be in flight; the quotation is restored and the deal
\* edited in its lines and price, while the timer and the rate service act.
\* The user neither edits the rate nor asks for a refresh.
RestoreDeals ==
    {<<[product |-> Implante, quantity |-> 1]>>,
     <<[product |-> PasajeAereo, quantity |-> 2], [product |-> Implante, quantity |-> 1]>>}

InitRestore ==
    /\ products = StoreCatalog
    /\ productsFetch = FALSE
    /\ dealItems \in RestoreDeals
    /\ targetSalePrice = Num(3800)
    /\ exchangeRate \in FetchedRates \cup {Num(InitialExchangeRate)}
    /\ ratePending \in {<<>>, <<DefaultRetries>>}
    /\ activeTab = "history"
    /\ \E rate \in FetchedRates \cup {Num(InitialExchangeRate)} :
           simulations = <<storedRecord(1, simulationRecord(dealItems, rate, targetSalePrice))>>
    /\ nextSimulationId = 2
    /\ savedQuotations = simulations
    /\ quotationsFetch = FALSE
    /\ alertMsg = ""
    /\ exported = NoExport
    /\ parsing = NoParse
    /\ fetchError = FALSE
    /\ productsStore = StoreRows
    /\ nextProductId = 1
    /\ catalogCalls = <<>>
    /\ now = 2

NextRestore ==
    \/ \E quotation \in Range(savedQuotations) : duplicateQuotation(quotation)
    \/ closeAlert
    \/ \E item \in Range(dealItems) : removeItem(item.product.id)
    \/ \E item \in Range(dealItems), text \in QtyTexts : quantityInput(item.product.id, text)
    \/ \E value \in PriceInputs : setTargetSalePrice(value)
    \/ intervalTick
    \/ \E i \in 1..MaxPending, rate \in FetchedRates : fetchExchangeRateOk(i, rate)
    \/ \E i \in 1..MaxPending : fetchExchangeRateFailed(i)

SpecRestore == InitRestore /\ [][NextRestore]_vars


\* The catalog handlers (NextCatalog), from a session with a quotation in the
\* store (InitCatalog).
ProductNames == {<<"K", "i", "t">>, <<"p", "a", "s", "a", "j", "e", " ", "a", "e", "r", "e", "o">>, <<>>}

ProductCosts == {<<"7">>, <<"a", "b", "c">>, <<>>}

ListNames == {"General", "Implantes"}

ErrorCodes == {"23505", "500"}

\* the products of the stored quotation, in the order of their names
QuotedCatalog == <<Implante, PasajeAereo>>

\* the rows of a catalog the store has given its products' ids to
storeRows(catalog) == [i \in 1..Len(catalog) |-> storeRow(catalog[i], catalog[i].id)]

InitCatalog ==
    /\ products = QuotedCatalog
    /\ productsFetch = FALSE
    /\ dealItems = <<>>
    /\ targetSalePrice = Zero
    /\ exchangeRate = Num(InitialExchangeRate)
    /\ ratePending = <<>>
    /\ activeTab = "simulator"
    /\ simulations =
           <<storedRecord(1, simulationRecord(<<[product |-> PasajeAereo, quantity |-> 2],
                                                [product |-> Implante, quantity |-> 1]>>,
                                              Num(InitialExchangeRate), Num(3800)))>>
    /\ nextSimulationId = 2
    /\ savedQuotations = simulations
    /\ quotationsFetch = FALSE
    /\ alertMsg = ""
    /\ exported = NoExport
    /\ parsing = NoParse
    /\ fetchError = FALSE
    /\ productsStore = storeRows(QuotedCatalog)
    /\ nextProductId = 1
    /\ catalogCalls = <<>>
    /\ now = 2

NextCatalog ==
    \/ \E name \in ProductNames, cost \in ProductCosts : createUniqueProduct(name, cost)
    \/ \E k \in 1..MaxCalls : createUniqueProductDone(k)
    \/ \E k \in 1..MaxCalls, code \in ErrorCodes : createUniqueProductFailed(k, code)
    \/ \E k \in 1..MaxCalls : createUniqueProductThrew(k)
    \/ \E product \in Range(products) : deleteProduct(product)
    \/ \E k \in 1..MaxCalls : deleteProductDone(k)
    \/ \E k \in 1..MaxCalls : deleteProductFailed(k)
    \/ \E product \in Range(products), list \in ListNames :
           updateProductCategory(product, list)
    \/ \E k \in 1..MaxCalls : updateProductCategoryDone(k)
    \/ \E k \in 1..MaxCalls : updateProductCategoryFailed(k)
    \/ syncProductsToSupabase
    \/ \E k \in 1..MaxCalls : syncDeleteDone(k)
    \/ \E k \in 1..MaxCalls : syncDeleteFailed(k)
    \/ \E k \in 1..MaxCalls : syncInsertDone(k)
    \/ \E k \in 1..MaxCalls : syncInsertFailed(k)
    \/ FetchProductsDone
    \/ FetchProductsFailed
    \/ \E file \in SessionFiles : handleFileUpload(file)
    \/ parseResolved
    \/ \E i \in 1..MaxPending : fetchExchangeRateFailed(i)
    \/ \E tab \in {"simulator", "history"} : setActiveTab(tab)
    \/ fetchSavedQuotationsDone
    \/ \E quotation \in Range(savedQuotations) : duplicateQuotation(quotation)
    \/ closeAlert

\* Sync (SpecSync): the catalog of the store or an imported one is
\* synchronised.
NextSync ==
    \/ syncProductsToSupabase
    \/ FetchProductsFailed
    \/ \E k \in 1..MaxCalls : syncDeleteDone(k)
    \/ \E k \in 1..MaxCalls : syncDeleteFailed(k)
    \/ \E k \in 1..MaxCalls : syncInsertDone(k)
    \/ \E k \in 1..MaxCalls : syncInsertFailed(k)
    \/ FetchProductsDone
    \/ \E file \in SessionFiles : handleFileUpload(file)
    \/ parseResolved
    \/ \E i \in 1..MaxPending : fetchExchangeRateFailed(i)
    \/ closeAlert

SpecSync == InitCatalog /\ [][NextSync]_vars

\* Create (SpecCreate): one-off products are created, while a catalog may be
\* imported.
NextCreate ==
    \/ \E name \in ProductNames, cost \in ProductCosts : createUniqueProduct(name, cost)
    \/ \E k \in 1..MaxCalls : createUniqueProductDone(k)
    \/ \E k \in 1..MaxCalls, code \in ErrorCodes : createUniqueProductFailed(k, code)
    \/ \E k \in 1..MaxCalls : createUniqueProductThrew(k)
    \/ \E file \in SessionFiles : handleFileUpload(file)
    \/ parseResolved
    \/ \E i \in 1..MaxPending : fetchExchangeRateFailed(i)
    \/ closeAlert

SpecCreate == InitCatalog /\ [][NextCreate]_vars

\* Lists (SpecLists): products are taken from their lists, while a product
\* may be created or deleted.
NextLists ==
    \/ \E product \in Range(products) : updateProductCategory(product, "General")
    \/ \E k \in 1..MaxCalls : updateProductCategoryDone(k)
    \/ \E k \in 1..MaxCalls : updateProductCategoryFailed(k)
    \/ createUniqueProduct(<<"K", "i", "t">>, <<"7">>)
    \/ \E k \in 1..MaxCalls : createUniqueProductDone(k)
    \/ \E product \in Range(products) : deleteProduct(product)
    \/ \E k \in 1..MaxCalls : deleteProductDone(k)
    \/ closeAlert

SpecLists == InitCatalog /\ [][NextLists]_vars

\* Frozen (SpecFrozen): with a quotation in the store, the catalog is changed
\* one call at a time (products deleted and taken from their lists, a catalog
\* imported and then synchronised), and the quotation is restored.
NextFrozen ==
    \/ catalogCalls = <<>> /\ \E product \in Range(products) : deleteProduct(product)
    \/ \E k \in 1..MaxCalls : deleteProductDone(k)
    \/ catalogCalls = <<>> /\ \E product \in Range(products) :
                                  updateProductCategory(product, "General")
    \/ \E k \in 1..MaxCalls : updateProductCategoryDone(k)
    \/ catalogCalls = <<>> /\ parsing.phase = "settled" /\ syncProductsToSupabase
    \/ \E k \in 1..MaxCalls : syncDeleteDone(k)
    \/ \E k \in 1..MaxCalls : syncInsertDone(k)
    \/ FetchProductsDone
    \/ \E file \in SessionFiles : handleFileUpload(file)
    \/ parseResolved
    \/ \E tab \in {"simulator", "history"} : setActiveTab(tab)
    \/ fetchSavedQuotationsDone
    \/ \E quotation \in Range(savedQuotations) : duplicateQuotation(quotation)
    \/ closeAlert

SpecFrozen == InitCatalog /\ [][NextFrozen]_vars

\* the whole machine
Next == NextEngine \/ NextHistory \/ NextImport \/ NextRestore \/ NextCatalog

Spec == Init /\ [][Next]_vars


(***************************************************************************)
(* Properties.                                                             *)
(***************************************************************************)
\* the figures of the live deal
liveTotalCostCLP == totalCostCLP(dealItems, exchangeRate)

liveAtCostCLP == totalAtCostCLP(dealItems, exchangeRate)

liveFlexibleCostCLP == totalFlexibleCostCLP(dealItems, exchangeRate)

liveMultiplier == flexibleMultiplier(dealItems, exchangeRate, targetSalePrice)

liveMarginPercent == grossMarginPercent(dealItems, exchangeRate, targetSalePrice)

liveMarginValue == grossMarginValue(dealItems, exchangeRate, targetSalePrice)

\* {name, quantity, unit cost} of the lines of a deal and of a stored quotation
dealTuples(items) ==
    [i \in 1..Len(items) |->
        <<items[i].product.name, items[i].quantity, items[i].product.costUSD>>]

frozenTuples(quotation) ==
    [i \in 1..Len(quotation.items) |->
        <<quotation.items[i].name, quotation.items[i].qty, quotation.items[i].cost_usd>>]

\* C1: a save of an empty deal or with a sale price <= 0 is rejected and leaves
\* the deal, the rate, the store and the list of stored quotations unchanged;
\* an insert into the store is attempted (and then succeeds or is refused)
\* only when the deal has items and the sale price is > 0.
C1_SaveRejectedBeforeInsert ==
    [][/\ (alertMsg = "" /\ alertMsg' = SaveRejectedMsg)
            => /\ dealItems = <<>> \/ LessEq(targetSalePrice, Zero)
               /\ UNCHANGED <<dealItems, targetSalePrice, exchangeRate, simulations,
                              nextSimulationId, savedQuotations, ratePending, quotationsFetch>>
       /\ (\/ Len(simulations') > Len(simulations)
           \/ alertMsg = "" /\ alertMsg' \in {SaveOkMsg, SaveErrorMsg})
            => dealItems # <<>> /\ Less(Zero, targetSalePrice)
       /\ (saveSimulation /\ (dealItems = <<>> \/ LessEq(targetSalePrice, Zero)))
            => alertMsg' = SaveRejectedMsg
      ]_vars

\* a save of a deal with items and a price <= 0 has just been rejected
C1_Witness ==
    /\ alertMsg = SaveRejectedMsg
    /\ dealItems # <<>>
    /\ LessEq(targetSalePrice, Zero)
    /\ simulations = <<>>

\* C2: the record a save inserts carries the deal's price, rate and, in order,
\* its lines' {name, quantity, unit cost}; restoring a stored quotation gives a
\* deal with the record's price and rate and the same line tuples in the same
\* order, whose products have pairwise distinct restored ids, the category
\* "Restaurado", an empty sku and suggested price 0.
C2_SaveRestoreRoundTrip ==
    [][/\ Len(simulations') > Len(simulations)
            => LET record == simulations'[Len(simulations')]
               IN  /\ record.sale_price_clp = targetSalePrice
                   /\ record.exchange_rate = exchangeRate
                   /\ frozenTuples(record) = dealTuples(dealItems)
       /\ \A quotation \in Range(savedQuotations) :
            duplicateQuotation(quotation)
            => /\ targetSalePrice' = quotation.sale_price_clp
               /\ exchangeRate' = quotation.exchange_rate
               /\ dealTuples(dealItems') = frozenTuples(quotation)
               /\ \A i, j \in 1..Len(dealItems') :
                      i # j => dealItems'[i].product.id # dealItems'[j].product.id
               /\ \A i \in 1..Len(dealItems') :
                      /\ dealItems'[i].product.id \notin {product.id : product \in Range(products)}
                      /\ dealItems'[i].product.category = Restaurado
                      /\ dealItems'[i].product.sku = ""
                      /\ dealItems'[i].product.suggestedPriceUSD = Zero
      ]_vars

\* a stored quotation of two lines with different quantities has just been restored
C2_Witness ==
    /\ alertMsg = LoadedMsg
    /\ Len(dealItems) = 2
    /\ dealItems[1].quantity # dealItems[2].quantity
    /\ \E quotation \in Range(savedQuotations) :
           /\ dealItems = recreatedItems(quotation)
           /\ targetSalePrice = quotation.sale_price_clp
           /\ exchangeRate = quotation.exchange_rate

\* C3: restoring a stored quotation and recomputing the engine yields the
\* margin percent and the net profit frozen in the record.
C3_MarginSurvivesRestore ==
    [][\A quotation \in Range(savedQuotations) :
            duplicateQuotation(quotation)
            => /\ grossMarginPercent(dealItems', exchangeRate', targetSalePrice')
                      = quotation.margin_percent
               /\ grossMarginValue(dealItems', exchangeRate', targetSalePrice')
                      = quotation.net_profit_clp
      ]_vars

\* C4: the margin percent the internal export prints for a stored quotation
\* equals the margin percent frozen in it.
C4_InternalExportMargin ==
    exported.kind = "internal"
        => \A quotation \in Range(savedQuotations) :
               quotation.id = exported.id
                   => exported.displayMarginPercent = quotation.margin_percent

\* the multiplier of section 4.4 over the frozen items, split by the name rule
frozenMultiplier(quotation) ==
    LET atCost   == exportAtCostFrom(quotation.items, quotation.exchange_rate, Zero)
        flexible == exportFlexibleCostFrom(quotation.items, quotation.exchange_rate, Zero)
    IN  IF Less(Zero, flexible)
        THEN MathMax(Zero, Over(Minus(quotation.sale_price_clp, atCost), flexible))
        ELSE Num(1)

\* C5: the multiplier the client export applies to the flexible lines is
\* max(0, (salePrice - totalAtCost) / totalFlexibleCost) when totalFlexibleCost > 0
\* and 1 otherwise, and no exported unit price is negative.
C5_ClientExportMultiplier ==
    exported.kind = "client"
        => \A quotation \in Range(savedQuotations) :
               quotation.id = exported.id
                   => /\ exported.flexMultiplier = frozenMultiplier(quotation)
                      /\ \A i \in 1..Len(exported.lines) :
                             ~Less(exported.lines[i].unitPriceCLP, Zero)


\* the sum of the reference line totals of the deal table
RECURSIVE sumTotalPriceRef(_, _, _, _)
sumTotalPriceRef(rows, items, rate, price) ==
    IF rows = <<>> THEN Zero
    ELSE Plus(totalPriceRef(Head(rows), items, rate, price),
              sumTotalPriceRef(Tail(rows), items, rate, price))

\* C6: when the flexible cost is > 0 and the sale price is at least the at-cost
\* total, every at-cost line is priced at unit cost * quantity and the
\* reference line totals add up to the sale price.
C6_FlexibleItemsAbsorbTarget ==
    (Less(Zero, liveFlexibleCostCLP) /\ LessEq(liveAtCostCLP, targetSalePrice))
        => /\ \A i \in 1..Len(dealItems) :
                  isAtCost(dealItems[i])
                      => totalPriceRef(dealItems[i], dealItems, exchangeRate, targetSalePrice)
                             = Times(Times(dealItems[i].product.costUSD, exchangeRate),
                                     Num(dealItems[i].quantity))
           /\ sumTotalPriceRef(dealItems, dealItems, exchangeRate, targetSalePrice)
                  = targetSalePrice

\* a deal with an at-cost line and a flexible line, priced above its cost
C6_Witness ==
    /\ \E i \in 1..Len(dealItems) : isAtCost(dealItems[i]) /\ dealItems[i].quantity > 0
    /\ Less(Zero, liveFlexibleCostCLP)
    /\ Less(liveTotalCostCLP, targetSalePrice)
    /\ liveMultiplier # Num(1)

\* C7: in every deal state the multiplier is
\* max(0, (targetPrice - totalAtCost) / totalFlexibleCost) if totalFlexibleCost > 0
\* and 1 otherwise.
C7_MultiplierFormula ==
    liveMultiplier =
        IF Less(Zero, liveFlexibleCostCLP)
        THEN MathMax(Zero, Over(Minus(targetSalePrice, liveAtCostCLP), liveFlexibleCostCLP))
        ELSE Num(1)

\* C8 as stated: for an empty deal, or a zero flexible cost with a nonzero sale
\* price, the multiplier is 1 and the margin percent is 0.
C8_ZeroGuardAsStated ==
    (dealItems = <<>> \/ (liveFlexibleCostCLP = Zero /\ targetSalePrice # Zero))
        => liveMultiplier = Num(1) /\ liveMarginPercent = Zero

\* C8 as amended: for an empty deal, or a zero flexible cost with a nonzero sale
\* price, the multiplier is 1; the margin percent is 0 when the sale price is at
\* most the at-cost total, and otherwise
\* (price - totalCost) / (price - totalAtCost) * 100, which is 100 for an empty
\* deal with a positive price.
C8_ZeroGuard ==
    (dealItems = <<>> \/ (liveFlexibleCostCLP = Zero /\ targetSalePrice # Zero))
        => /\ liveMultiplier = Num(1)
           /\ LessEq(targetSalePrice, liveAtCostCLP) => liveMarginPercent = Zero
           /\ Less(liveAtCostCLP, targetSalePrice)
                  => liveMarginPercent =
                         Times(Over(Minus(targetSalePrice, liveTotalCostCLP),
                                    Minus(targetSalePrice, liveAtCostCLP)), Num(100))
           /\ (dealItems = <<>> /\ Less(Zero, targetSalePrice))
                  => liveMarginPercent = Num(100)

\* an empty deal with a positive sale price
C8_Witness == dealItems = <<>> /\ Less(Zero, targetSalePrice)

\* C9: every figure of the engine is a defined number (no formula has divided
\* by zero) and the multiplier is >= 0.
C9_EngineNeverFails ==
    /\ IsNum(totalCostUSD(dealItems))
    /\ IsNum(liveTotalCostCLP)
    /\ IsNum(liveAtCostCLP)
    /\ IsNum(liveFlexibleCostCLP)
    /\ IsNum(liveMultiplier)
    /\ LessEq(Zero, liveMultiplier)
    /\ IsNum(liveMarginValue)
    /\ IsNum(liveMarginPercent)
    /\ IsNum(suggested50PercentPrice(dealItems, exchangeRate))
    /\ \A i \in 1..Len(dealItems) :
           IsNum(totalPriceRef(dealItems[i], dealItems, exchangeRate, targetSalePrice))

\* a deal with items whose flexible cost is 0 and whose sale price is below the
\* at-cost total: both guards are taken
C9_Witness ==
    /\ dealItems # <<>>
    /\ liveFlexibleCostCLP = Zero
    /\ Less(targetSalePrice, liveAtCostCLP)

\* a step of addItem, removeItem, updateQuantity or a change of the exchange rate
DealEdit ==
    \/ \E product \in Range(products) : addItem(product)
    \/ \E item \in Range(dealItems) : removeItem(item.product.id)
    \/ \E item \in Range(dealItems), quantity \in QtyInputs :
           updateQuantity(item.product.id, quantity)
    \/ \E value \in RateInputs : setExchangeRate(value)
    \/ \E i \in 1..MaxPending, rate \in FetchedRates : fetchExchangeRateOk(i, rate)

\* C10: adding an item to an empty deal whose sale price is 0 sets the price to
\* round(totalCostCLP / 0.5); while the price is not 0, no add, remove, quantity
\* change or rate change alters it.
C10_AutoSeedOnce ==
    [][/\ (dealItems = <<>> /\ targetSalePrice = Zero
             /\ \E product \in Range(products) : addItem(product))
            => targetSalePrice' =
                   MathRound(Over(totalCostCLP(dealItems', exchangeRate'), Frac(1, 2)))
       /\ (targetSalePrice # Zero /\ DealEdit) => targetSalePrice' = targetSalePrice
      ]_vars

\* the price of a one-line deal is the seed, rounded from a value that is no integer
C10_Witness ==
    /\ Len(dealItems) = 1
    /\ suggested50PercentPrice(dealItems, exchangeRate).d > 1
    /\ targetSalePrice = MathRound(suggested50PercentPrice(dealItems, exchangeRate))

\* a manual reset of the price to 0: "0" typed into the price input, or the
\* tax-inclusive input emptied
ManualReset == setTargetSalePrice(Zero) \/ priceWithIvaInput(<<>>)

\* C11 as stated: a manual reset of the price to 0 while the deal has items
\* sets the price again to round(suggested50PercentPrice), without a further
\* change of the line items or the exchange rate.
C11_ReseedOnManualResetAsStated ==
    [][(dealItems # <<>> /\ ManualReset)
            => targetSalePrice' = MathRound(suggested50PercentPrice(dealItems, exchangeRate))
      ]_vars

\* C11 as amended: a manual reset of the price to 0 while the deal has items
\* leaves the price at 0; the price is seeded again, to
\* round(suggested50PercentPrice), by the next add, remove, quantity change or
\* rate change that changes the number of line items or suggested50PercentPrice
\* and leaves items in the deal, and stays 0 through an edit that changes neither.
C11_ReseedOnNextChange ==
    [][/\ (dealItems # <<>> /\ ManualReset) => targetSalePrice' = Zero
       /\ (targetSalePrice = Zero /\ DealEdit /\ dealItems' # <<>>)
            => IF \/ Len(dealItems') # Len(dealItems)
                  \/ suggested50PercentPrice(dealItems', exchangeRate')
                         # suggested50PercentPrice(dealItems, exchangeRate)
               THEN targetSalePrice' = MathRound(suggested50PercentPrice(dealItems', exchangeRate'))
               ELSE targetSalePrice' = Zero
      ]_vars

\* the price of a deal with items of positive cost reads 0
C11_Witness ==
    /\ dealItems # <<>>
    /\ targetSalePrice = Zero
    /\ Less(Zero, suggested50PercentPrice(dealItems, exchangeRate))

\* C12: a desired margin m with 0 < m < 100, entered while the total cost is
\* > 0, sets the price to round(totalCostCLP * 100 / (100 - m)), the cost being
\* that of the whole deal; any other entry changes nothing.
C12_InverseSolve ==
    [][\A text \in MarginTexts :
           marginInput(text)
           => LET m == parseFloat(text)
              IN  /\ IF /\ text \in {<<"2", "0">>}
                        /\ Less(Zero, liveTotalCostCLP)
                     THEN /\ m = Num(20)
                          /\ targetSalePrice' =
                                 MathRound(Over(Times(liveTotalCostCLP, Num(100)),
                                                Minus(Num(100), m)))
                     ELSE targetSalePrice' = targetSalePrice
                  /\ UNCHANGED <<catalogVars, fetchError, parsing, products, dealItems, exchangeRate, simulations,
                                 savedQuotations, activeTab>>
      ]_vars

\* a deal with an at-cost line whose price is the one solved for a margin of 20
C12_Witness ==
    /\ \E i \in 1..Len(dealItems) : isAtCost(dealItems[i]) /\ dealItems[i].quantity > 0
    /\ Less(Zero, liveFlexibleCostCLP)
    /\ targetSalePrice = MathRound(Times(liveTotalCostCLP, Frac(5, 4)))
    /\ targetSalePrice # MathRound(suggested50PercentPrice(dealItems, exchangeRate))

\* the promise of the last parseFile call is resolved
Resolved == parsing.phase = "settled" /\ parsing.promise = "resolved"

\* the rows mapRowsToProducts was given for the file last parsed
parsedRows ==
    IF extension(parsing.file.name) = CsvText THEN papaData(parsing.file.grid)
    ELSE IF parsing.file.grid = <<>> THEN <<>>
    ELSE sheetToJson(parsing.file.grid, headerRowIndex(parsing.file.grid))

\* C13: the step that resolves an import leaves as catalog exactly the parsed
\* products, in order, and a deal without line items.
C13_ImportReplaces ==
    [][(parsing.phase = "reading" /\ parsing'.phase = "settled"
            /\ parsing'.promise = "resolved")
            => /\ Len(products') = Len(parsing'.value)
               /\ \A i \in 1..Len(products') :
                      /\ products'[i].name = parsing'.value[i].name
                      /\ products'[i].sku = toStr(parsing'.value[i].sku)
                      /\ products'[i].category = toStr(parsing'.value[i].category)
                      /\ products'[i].costUSD = parsing'.value[i].costUSD
               /\ dealItems' = <<>>
      ]_vars

\* an import of two products has replaced the catalog of the store
C13_Witness ==
    /\ Resolved
    /\ Len(products) = 2
    /\ \A i \in 1..Len(products) : products[i] \notin Range(StoreCatalog)
    /\ dealItems = <<>>

\* C14: a step in which parseFile rejects, or stops without settling, leaves
\* the catalog, the deal's line items and the sale price unchanged; the catalog
\* changes only in a step that resolves parseFile, and then to as many products
\* as were parsed.
C14_FailedImportChangesNothing ==
    [][/\ (parsing' # parsing /\ parsing'.phase # "reading" /\ parsing'.promise # "resolved")
            => UNCHANGED <<products, dealItems, targetSalePrice>>
       /\ products' # products
            => /\ parsing' # parsing
               /\ parsing'.promise = "resolved"
               /\ Len(products') = Len(parsing'.value)
      ]_vars

\* a file of an unsupported format has been rejected while the deal has items
C14_Witness ==
    /\ parsing.phase = "settled"
    /\ parsing.promise = "rejected"
    /\ alertMsg = UnsupportedFormatMsg
    /\ products = StoreCatalog
    /\ dealItems # <<>>

\* C15: a failed read and a malformed source leave the promise of parseFile
\* rejected: it is neither pending once the reader has failed or the decoder
\* has thrown, nor resolved for a malformed source.
C15_ParseFileSettles ==
    /\ parsing.phase \in {"readFailed", "threw"} => parsing.promise = "rejected"
    /\ (parsing.phase = "settled" /\ parsing.file.malformed) => parsing.promise = "rejected"

\* the sku and the name a row resolves, by keyword or by position
resolvedSku(row, index) ==
    LET sku == findValue(row, SkuKeywords)
    IN  trimmedOr(IF truthy(sku) THEN sku
                  ELSE IF index = 0 THEN Null ELSE elementAt(ObjectValues(row), 0), <<>>)

resolvedName(row) ==
    LET name == findValue(row, NameKeywords)
    IN  trimmedOr(IF truthy(name) THEN name ELSE elementAt(ObjectValues(row), 1), <<>>)

\* C16: every row that resolves a name or an sku is represented in the result
\* (by the product of its normalized name, or of its sku when it has no name),
\* and every product of the result has a name or an sku.
C16_NoSalvageableRowDropped ==
    Resolved
        => /\ \A i \in 1..Len(parsedRows) :
                  LET name == resolvedName(parsedRows[i])
                      sku  == resolvedSku(parsedRows[i], i - 1)
                  IN  (name # <<>> \/ sku # <<>>)
                          => \E k \in 1..Len(parsing.value) :
                                 IF name # <<>>
                                 THEN normalize(parsing.value[k].name) = normalize(name)
                                 ELSE parsing.value[k].sku = sku
           /\ \A k \in 1..Len(parsing.value) :
                  parsing.value[k].name # <<>> \/ parsing.value[k].sku # <<>>

\* the first row whose name has the normalized name of a product
firstRowOf(product) ==
    CHOOSE i \in 1..Len(parsedRows) :
        /\ normalize(resolvedName(parsedRows[i])) = normalize(product.name)
        /\ \A j \in 1..(i - 1) :
               normalize(resolvedName(parsedRows[j])) # normalize(product.name)

\* C17: the result holds at most one product per name normalized by lower case,
\* diacritics and blanks; each carries the sku of the first row of that name,
\* and the products are in the order of these rows.
C17_DedupFirstPerNormalizedName ==
    Resolved
        => /\ \A k, l \in 1..Len(parsing.value) :
                  k # l => normalize(parsing.value[k].name) # normalize(parsing.value[l].name)
           /\ \A k \in 1..Len(parsing.value) :
                  parsing.value[k].sku =
                      resolvedSku(parsedRows[firstRowOf(parsing.value[k])],
                                  firstRowOf(parsing.value[k]) - 1)
           /\ \A k, l \in 1..Len(parsing.value) :
                  k < l => firstRowOf(parsing.value[k]) < firstRowOf(parsing.value[l])

\* the cost cell of a file of one product
costCell == parsing.file.grid[2][3]

\* C18: the cost parsed from a cell is a number; "$1.234,56" gives 1234.56,
\* "1,5" and "1.5" give 1.5, "$15" gives 15, and a cell without a digit gives 0.
C18_NumericCoercion ==
    (Resolved /\ Len(parsing.file.grid) = 2 /\ Len(parsing.file.grid[2]) >= 3
        /\ Len(parsing.value) = 1)
        => LET cost == parsing.value[1].costUSD
           IN  /\ IsNum(cost)
               /\ costCell = CostExample => cost = Frac(123456, 100)
               /\ costCell \in {<<"1", ",", "5">>, <<"1", ".", "5">>} => cost = Frac(3, 2)
               /\ costCell = <<"$", "1", "5">> => cost = Num(15)
               /\ (\A i \in 1..Len(costCell) : ~isDigit(costCell[i])) => cost = Zero

\* C19: the quantity of every line item of the deal is an integer, 0 or more.
C19_QuantityNatural == \A i \in 1..Len(dealItems) : dealItems[i].quantity \in Nat

\* the quantity input of one of two line items has been emptied or set below 0
\* after a restore
C19_Witness ==
    /\ Len(dealItems) = 2
    /\ dealItems[1].product.category = Restaurado
    /\ dealItems[1].quantity = 0
    /\ dealItems[2].quantity = 2

\* C20: every record a step adds to the store has at least one line and a sale
\* price above 0; every record of the store is in the store after the step,
\* unchanged, unless the step is deleteQuotation of that record.
C20_StoredQuotationsImmutable ==
    [][/\ \A q \in Range(simulations') :
              \/ q \in Range(simulations)
              \/ Len(q.items) >= 1 /\ Less(Zero, q.sale_price_clp)
       /\ \A q \in Range(simulations) :
              q \in Range(simulations') \/ deleteQuotation(q.id)
      ]_vars

\* a stored quotation has been restored and the deal made from it edited, the
\* record being as it was stored
C20_Witness ==
    /\ Len(simulations) = 1
    /\ Len(simulations[1].items) = 1
    /\ simulations[1].items[1].qty = 1
    /\ Len(dealItems) = 1
    /\ dealItems[1].product.category = Restaurado
    /\ dealItems[1].quantity = 2
    /\ exchangeRate # simulations[1].exchange_rate

\* the first label of a row, in the order of its keys, whose lower-cased,
\* unaccented and trimmed form holds a synonym; 0 when there is none
firstLabel(row, keywords) ==
    LET qualifies(i) ==
            \E k \in 1..Len(keywords) :
                includes(normalize(row[i][1]), keywords[k])
    IN  IF \E i \in 1..Len(row) : qualifies(i)
        THEN CHOOSE i \in 1..Len(row) : qualifies(i) /\ \A j \in 1..(i - 1) : ~qualifies(j)
        ELSE 0

\* the cell a field resolves to: that of its first label, or the one at the
\* position when no label qualifies (or, unless strict, when that cell is
\* empty)
resolvedCell(row, keywords, positional, strict) ==
    LET j == firstLabel(row, keywords)
    IN  IF j # 0 /\ (strict \/ truthy(row[j][2])) THEN row[j][2] ELSE positional

\* the product a row stands for
resolvedProduct(row, index, strict) ==
    LET rv == ObjectValues(row)
    IN  [sku      |-> trimmedOr(resolvedCell(row, SkuKeywords,
                                    IF index = 0 THEN Null ELSE elementAt(rv, 0), strict), <<>>),
         name     |-> trimmedOr(resolvedCell(row, NameKeywords, elementAt(rv, 1), strict), <<>>),
         category |-> trimmedOr(resolvedCell(row, CategoryKeywords, Null, FALSE), GeneralText),
         costUSD  |-> parseNumber(resolvedCell(row, CostKeywords, elementAt(rv, 3), strict)),
         msrpUSD  |-> Zero]

\* C23: every row with a name gives the product of the cells its fields
\* resolve to, a field with a matching label resolving to that label's cell
\* even when the cell is empty, and to the cell at its position only when no
\* label matches.
C23_PositionalOnlyWithoutMatch ==
    Resolved
        => \A i \in 1..Len(parsedRows) :
               resolvedProduct(parsedRows[i], i - 1, TRUE).name # <<>>
                   => resolvedProduct(parsedRows[i], i - 1, TRUE) \in Range(parsing.value)

\* C24: every row with a name gives the product whose fields are the cells of
\* the first qualifying label of each field, in the order of the row's keys;
\* a field without a qualifying label has no match (the category is then
\* General).
C24_FirstQualifyingLabel ==
    Resolved
        => \A i \in 1..Len(parsedRows) :
               resolvedProduct(parsedRows[i], i - 1, FALSE).name # <<>>
                   => resolvedProduct(parsedRows[i], i - 1, FALSE) \in Range(parsing.value)

\* a file whose header repeats the name and the cost under two labels has
\* given its two products
C24_Witness ==
    /\ Resolved
    /\ Len(parsing.file.grid) = 3
    /\ parsing.file.grid[1][1] = <<"I", "t", "e", "m">>
    /\ Len(parsing.value) = 2
    /\ parsing.value[1].name = <<"P", "1">>
    /\ parsing.value[2].costUSD = Num(21)

\* the header line of a sheet: the first of its first 10 lines that holds
\* 'sku', 'nom' or 'pre', the first line when none does
markedLines(rows) ==
    {i \in 0..(Len(rows) - 1) :
        /\ i < 10
        /\ \E marker \in {<<"s", "k", "u">>, <<"n", "o", "m">>, <<"p", "r", "e">>} :
               includes(toLowerCase(join(rows[i + 1])), marker)}

headerLine(rows) ==
    IF markedLines(rows) = {} THEN 0
    ELSE CHOOSE i \in markedLines(rows) : \A j \in markedLines(rows) : i <= j

\* C25: a workbook resolves to the products of the lines below its header
\* line, or to no product when its sheet is empty.
C25_HeaderRowDetection ==
    (Resolved /\ extension(parsing.file.name) # CsvText)
        => parsing.value =
               IF parsing.file.grid = <<>> THEN <<>>
               ELSE mapRowsToProducts(sheetToJson(parsing.file.grid,
                                                  headerLine(parsing.file.grid)))

\* a workbook whose header line is the tenth line has given its product
C25_Witness ==
    /\ Resolved
    /\ extension(parsing.file.name) = XlsxText
    /\ Len(parsing.file.grid) = 11
    /\ Len(parsing.value) = 1
    /\ parsing.value[1].name = <<"W", "i", "d", "g", "e", "t">>

\* C30: typing the figure shown, round(price * 1.19), into the tax-inclusive
\* input leaves a whole price above 0 as it is, and typing 1000 sets the price
\* round(1000 / 1.19) = 840.
C30_TaxRoundTrip ==
    [][/\ priceWithIvaReentered => targetSalePrice' = targetSalePrice
       /\ priceWithIvaInput(<<"1", "0", "0", "0">>) => targetSalePrice' = Num(840)
      ]_vars

\* the figure 1000 has been typed: the price is 840, shown as 1000 again
C30_Witness ==
    /\ targetSalePrice = Num(840)
    /\ shownPriceWithIva(targetSalePrice) = Num(1000)
    /\ numberText(shownPriceWithIva(targetSalePrice).n) = <<"1", "0", "0", "0">>

\* C26: a call of fetchExchangeRate in flight has 2, 1 or 0 retries left, so
\* it makes at most 3 attempts; a step that schedules a retry takes one retry
\* off and leaves the rate; a step that ends a call either gives up, with no
\* retry left, the rate left as it was and fetchError set, or sets a fetched
\* rate.
C26_RetryBounded ==
    [][/\ \A i \in 1..Len(ratePending') : ratePending'[i] \in 0..2
       /\ (Len(ratePending') = Len(ratePending) /\ ratePending' # ratePending)
              => /\ exchangeRate' = exchangeRate
                 /\ \E i \in 1..Len(ratePending) :
                        /\ ratePending[i] > 0
                        /\ ratePending' = [ratePending EXCEPT ![i] = @ - 1]
       /\ Len(ratePending') < Len(ratePending)
              => \E i \in 1..Len(ratePending) :
                     /\ ratePending' = RemoveAt(ratePending, i)
                     /\ \/ ratePending[i] = 0 /\ fetchError' /\ exchangeRate' = exchangeRate
                        \/ exchangeRate' \in FetchedRates /\ fetchError' = fetchError
      ]_vars

\* the three attempts of a call have failed: the rate is the initial one and
\* the error flag is set
C26_Witness ==
    /\ fetchError
    /\ ratePending = <<>>
    /\ exchangeRate = Num(InitialExchangeRate)
    /\ dealItems # <<>>

\* C27: once the stored quotation is restored (the simulator tab is shown),
\* the exchange rate is the stored one for as long as the user neither edits
\* the rate nor asks for a refresh.
C27_RestoredRateKept ==
    activeTab = "simulator" => exchangeRate = simulations[1].exchange_rate

\* C29: when no call of syncProductsToSupabase is in flight, the store holds
\* a catalog: the one it had before the call or the local one, neither of
\* which is empty; a failed insert has not left the store emptied.
C29_StoreNeverEmptied == ~isSyncing => productsStore # <<>>

\* C22: the step that ends a call of createUniqueProduct leaves the new
\* product in the catalog exactly once, under the id of the store, when the
\* insert has succeeded, and leaves it out of the catalog and alerts the user
\* when the insert has failed, by an error or by an exception.
C22_CreateCommitsOrRollsBack ==
    [][\A k \in 1..MaxCalls :
          /\ createUniqueProductDone(k)
                 => /\ Cardinality({i \in 1..Len(products') :
                                       products'[i].id = storeId(nextProductId)}) = 1
                    /\ \A i \in 1..Len(products') :
                           /\ products'[i].id # catalogCalls[k].product.id
                           /\ products'[i].id = storeId(nextProductId)
                                  => products'[i].name = catalogCalls[k].product.name
          /\ ((\E code \in ErrorCodes : createUniqueProductFailed(k, code))
                 \/ createUniqueProductThrew(k))
                 => /\ \A i \in 1..Len(products') :
                           products'[i].id # catalogCalls[k].product.id
                    /\ alertMsg' # ""
      ]_vars

\* C28: the step that applies a confirmed update of a product's category
\* changes the category of that product in the catalog and nothing else of
\* the catalog as it is at that step.
C28_UpdateTouchesOnlyTarget ==
    [][\A k \in 1..MaxCalls :
          updateProductCategoryDone(k)
              => products' =
                     [i \in 1..Len(products) |->
                         IF products[i].id = catalogCalls[k].product.id
                         THEN [products[i] EXCEPT !.category = catalogCalls[k].newCategory]
                         ELSE products[i]]
      ]_vars

\* C21: no step changes the stored quotations (a product deleted or taken
\* from its list, a catalog imported, the catalog synchronised or fetched
\* leave the records and the list shown as they are), and the step that
\* restores a quotation gives the deal one line per line of the record, with
\* the record's name, quantity and cost, under an id of no catalog product.
C21_HistoryDecoupled ==
    [][/\ simulations' = simulations
       /\ savedQuotations' \in {savedQuotations, simulations}
       /\ \A quotation \in Range(savedQuotations) :
              duplicateQuotation(quotation)
                  => /\ Len(dealItems') = Len(quotation.items)
                     /\ \A i \in 1..Len(quotation.items) :
                            /\ dealItems'[i].product.name = quotation.items[i].name
                            /\ dealItems'[i].quantity = quotation.items[i].qty
                            /\ dealItems'[i].product.costUSD = quotation.items[i].cost_usd
                            /\ \A j \in 1..Len(products') :
                                   products'[j].id # dealItems'[i].product.id
      ]_vars

\* a product of the quotation has been deleted, the catalog has been
\* replaced by an imported one, and the quotation has been restored in full
C21_Witness ==
    /\ activeTab = "simulator"
    /\ parsing.phase = "settled"
    /\ \A row \in Range(productsStore) : row.name # PasajeAereo.name
    /\ \A product \in Range(products) :
           product.name \notin {Implante.name, PasajeAereo.name}
    /\ simulations # <<>>
    /\ dealItems = recreatedItems(simulations[1])
    /\ Len(dealItems) = 2
    /\ dealItems[1].product.name = PasajeAereo.name

====
